---------------------------- MODULE Spec2Model ----------------------------
(***************************************************************************)
(* Hybrid scoring and multi-judge consensus engine of the                  *)
(* AI-GitHub-Profile-Summarizer.                                           *)
(*                                                                         *)
(* One module, three state machines over one set of variables:             *)
(*   SpecAgg    AggregatorClient.synthesize_reports                        *)
(*              (src/app/services/aggregator_client.py)                    *)
(*   SpecScore  calculate_hybrid_score                                     *)
(*              (src/app/analysis/scoring_engine.py)                       *)
(*   SpecTech   extract_skills / calculate_technical_match                 *)
(*              (src/app/analysis/skill_extractor.py)                      *)
(* Each machine leaves the variables of the other two at their idle value. *)
(***************************************************************************)
EXTENDS Integers, Sequences, FiniteSets, TLC

VARIABLES
    \* ---- AggregatorClient.synthesize_reports ----
    pc,                   \* position in synthesize_reports
    self_model,           \* self.model is set (the constructor succeeded)
    reports,              \* the caller's list; its dicts are mutated in place
    reports0,             \* history: the list as it was passed in
    i,                    \* loop index of the two for-loops (1-based)
    total_score,
    valid_reports_count,
    avg_fit_score,
    reports_str_list,
    user_message,         \* the text handed to generate_content_async
    calls,                \* number of generate_content_async invocations
    response,             \* what the collaborator answered
    result,               \* the value returned to the caller
    \* ---- calculate_hybrid_score ----
    hpc,                  \* position in calculate_hybrid_score
    tech_score,
    exp_score,
    complexity_score,
    domain_score,
    llm_adjustment,
    base_score,           \* a double
    final_score,          \* a double (or the int 0 or 100 after the clamp)
    variance,             \* a double
    confidence,
    conf_percent,         \* in hundredths: 95 for 0.95
    hresult,              \* the dict returned
    \* ---- calculate_technical_match ----
    tpc,                  \* position in calculate_technical_match
    candidate_text,       \* a str: the sequence of its characters
    jd_text,
    jd_skills,
    candidate_skills,
    tresult,              \* the tuple returned
    \* ---- calculate_experience_score ----
    xpc,                  \* position in calculate_experience_score
    resume_text,          \* a str: the sequence of its characters
    exp_jd_text,          \* the jd_text argument
    candidate_years,
    required_years,
    xresult,              \* the int returned
    \* ---- calculate_complexity_score ----
    cpc,                  \* position in calculate_complexity_score
    repos,                \* the list of repository records
    ci,                   \* loop index (1-based)
    ctotal_score,         \* total_score
    valid_repos,
    cresult,              \* the int returned
    \* ---- analyze_candidate ----
    ppc,                  \* position in analyze_candidate
    llm_configured,       \* llm_client.model is set
    req_no,               \* number of requests received
    req,                  \* the form fields and path of the request
    gh,                   \* what get_user_profile and get_user_repos returned
    events,               \* the collaborators this request has called, in order
    scores,               \* tech, exp, comp and dom, once computed
    ai_result,            \* what the judge returned
    passed_adjustment,    \* the llm_adjustment handed to calculate_hybrid_score
    scoring_result,
    http_status,          \* the status of the response, 0 before it
    unhandled,            \* the exception that escaped the handler
    judge_calls,          \* number of generate_content_async invocations
    candidates,           \* the rows of the candidate table, by id
    report_files,         \* the report.json files, by folder
    prev,                 \* history: the request answered before this one
    \* ---- calculate_domain_relevance ----
    dpc,                  \* position in calculate_domain_relevance
    dom_jd_text,          \* jd_text
    dom_candidate_text,   \* candidate_text
    top_jd_keywords,      \* the keywords selected from the job description
    dmatches,             \* matches
    dresult,              \* the int returned
    \* ---- generate_audit_trail ----
    apc,                  \* position: how many calls have returned
    audit_scores,         \* scores
    audit_evidence,       \* evidence
    audit_scores0,        \* history: scores as handed over
    audit_evidence0,      \* history: evidence as handed over
    audit_trail,          \* the dict returned
    audit_before          \* history: the dict returned by the call before

aggVars == <<pc, self_model, reports, reports0, i, total_score,
             valid_reports_count, avg_fit_score, reports_str_list,
             user_message, calls, response, result>>

scoreVars == <<hpc, tech_score, exp_score, complexity_score, domain_score,
               llm_adjustment, base_score, final_score, variance, confidence,
               conf_percent, hresult>>

techVars == <<tpc, candidate_text, jd_text, jd_skills, candidate_skills,
              tresult>>

expVars == <<xpc, resume_text, exp_jd_text, candidate_years, required_years,
             xresult>>

cxVars == <<cpc, repos, ci, ctotal_score, valid_repos, cresult>>

pipeVars == <<ppc, llm_configured, req_no, req, gh, events, scores,
              ai_result, passed_adjustment, scoring_result, http_status,
              unhandled, judge_calls, candidates, report_files, prev>>

domainVars == <<dpc, dom_jd_text, dom_candidate_text, top_jd_keywords,
                dmatches, dresult>>

auditVars == <<apc, audit_scores, audit_evidence, audit_scores0,
               audit_evidence0, audit_trail, audit_before>>

vars == <<aggVars, scoreVars, techVars, expVars,
         cxVars, pipeVars, domainVars, auditVars>>

-----------------------------------------------------------------------------
(* Bounds of the model *)

\* longest report list handed to synthesize_reports
MaxReports == 3

\* largest |llm_adjustment| handed to calculate_hybrid_score
MaxAdjustment == 21

\* most fragments a job description is made of; a candidate text has one less
MaxFragments == 3

\* most fragments a resume or a job description is made of when years of
\* experience are read from it
MaxClauses == 2

\* longest repository list handed to calculate_complexity_score
MaxRepos == 3

\* the number of requests the service receives
MaxRequests == 2

\* longest evidence list handed to generate_audit_trail
MaxEvidence == 2

-----------------------------------------------------------------------------
(* What the variables of analyze_candidate hold before a request has set   *)
(* them                                                                     *)

NoRequest == [username |-> <<>>, project_id |-> 0, resume_text |-> <<>>]
NoGitHub == [profile |-> FALSE, repos |-> <<>>]
NoPrevious ==
    [req |-> NoRequest, gh |-> NoGitHub, http_status |-> 0, candidates |-> <<>>]
NoAnswer == [kind |-> "none", obj |-> <<>>]
NoAdjustment == [kind |-> "none", val |-> 0]

-----------------------------------------------------------------------------
(* Python dicts: functions whose domain is the set of keys present *)

EmptyDict == <<>>

Has(d, k) == k \in DOMAIN d

\* dict.pop(k, default) / del: the dict without key k
Without(d, k) == [x \in DOMAIN d \ {k} |-> d[x]]

\* d[k] = v
Put(d, k, v) == [x \in DOMAIN d \cup {k} |-> IF x = k THEN v ELSE d[x]]

(* JSON values of a fit_score: an integer, a string, or null *)
Num(n) == [kind |-> "int", val |-> n]
StrVal == [kind |-> "str", val |-> 0]
NullVal == [kind |-> "null", val |-> 0]
IsNumber(v) == v.kind = "int"

\* the label set by gpt_client on its report; "" stands for no model_source key
NoLabel == ""
OpenAILabel == "OpenAI (GPT-3.5 turbo)"
\* a judge report: summary always, fit_score and model_source when given
MkReport(fit, label) ==
    LET core == [summary |-> "text"]
        withFit == IF fit.kind = "absent" THEN core
                   ELSE Put(core, "fit_score", fit)
    IN  IF label = NoLabel THEN withFit
        ELSE Put(withFit, "model_source", label)

ReportLists ==
    LET
        NoFit == [kind |-> "absent", val |-> 0]
        \* fit scores a judge report may carry (85 + 60 and 85 + 80 average to x.5)
        FitScores == {60, 80, 85}
        FitChoices == {NoFit, StrVal, NullVal} \cup {Num(n) : n \in FitScores}
        LabelChoices == {NoLabel, OpenAILabel}
        \* a judge backend's failure value: an error and nothing else
        FailureValue == [error |-> "Error: Could not generate a summary."]
        ReportChoices ==
            {MkReport(f, l) : f \in FitChoices, l \in LabelChoices} \cup {FailureValue}
    IN  UNION {[1..n -> ReportChoices] : n \in 0..MaxReports}

-----------------------------------------------------------------------------
(* round(total_score / valid_reports_count): Python 3 rounds the quotient  *)
(* to the nearest integer, a tie going to the even neighbour.  n >= 0,     *)
(* d > 0; the double quotient of two small integers is a tie exactly when  *)
(* 2 * (n % d) = d.                                                        *)
PyRound(n, d) ==
    LET q == n \div d
        r == n % d
    IN  IF 2 * r < d THEN q
        ELSE IF 2 * r > d THEN q + 1
        ELSE IF q % 2 = 0 THEN q ELSE q + 1

-----------------------------------------------------------------------------
(* IEEE-754 binary64 arithmetic, as CPython's float does it, for the       *)
(* values calculate_hybrid_score meets: multiples of 2^-55 below 2^8.      *)
(* A magnitude is the integer |x| * 2^55 in three limbs <<hi, mid, lo>> of *)
(* 21 bits; a double is a sign and a magnitude of at most 53 significant   *)
(* bits.  Every operation computes the exact result and rounds it to       *)
(* nearest, ties to even.                                                  *)

LimbBase == 2^21

\* 2^55 = 2^13 * LimbBase^2: the magnitude of 1.0 is <<2^13, 0, 0>>
UnitHi == 2^13

RECURSIVE BitLen(_)
BitLen(n) == IF n = 0 THEN 0 ELSE 1 + BitLen(n \div 2)

\* carries (or borrows) propagated from lo to hi
MagNorm(h, m, l) ==
    LET m1 == m + (l \div LimbBase)
    IN  <<h + (m1 \div LimbBase), m1 % LimbBase, l % LimbBase>>

\* x - y for x >= y
MagSub(x, y) == MagNorm(x[1] - y[1], x[2] - y[2], x[3] - y[3])

MagLt(x, y) ==
    \/ x[1] < y[1]
    \/ x[1] = y[1] /\ x[2] < y[2]
    \/ x[1] = y[1] /\ x[2] = y[2] /\ x[3] < y[3]

\* round to 53 significant bits, to nearest, ties to even; at most 10 bits
\* are dropped, all of them in lo
Round53(x) ==
    LET
        MagBitLen(m) ==
            IF m[1] > 0 THEN 42 + BitLen(m[1])
            ELSE IF m[2] > 0 THEN 21 + BitLen(m[2])
            ELSE BitLen(m[3])
    IN  LET len == MagBitLen(x)
        IN  IF len <= 53 THEN x
            ELSE LET p == 2^(len - 53)
                     q == x[3] \div p
                     rest == x[3] % p
                     up == IF 2 * rest > p \/ (2 * rest = p /\ q % 2 = 1)
                           THEN 1 ELSE 0
                 IN  MagNorm(x[1], x[2], (q + up) * p)

MagZero == <<0, 0, 0>>

\* float(n) of a Python int
FromInt(n) ==
    [neg |-> n < 0, mag |-> <<(IF n < 0 THEN -n ELSE n) * UnitHi, 0, 0>>]

\* n * w for an int n >= 0 and a double w > 0 given by its magnitude
FMulInt(n, w) ==
    [neg |-> FALSE, mag |-> Round53(MagNorm(n * w[1], n * w[2], n * w[3]))]

\* x + y
FAdd(x, y) ==
    LET
        MagAdd(a, b) == MagNorm(a[1] + b[1], a[2] + b[2], a[3] + b[3])
    IN  IF x.neg = y.neg
        THEN [neg |-> x.neg, mag |-> Round53(MagAdd(x.mag, y.mag))]
        ELSE IF x.mag = y.mag THEN [neg |-> FALSE, mag |-> MagZero]
        ELSE IF MagLt(x.mag, y.mag)
             THEN [neg |-> y.neg, mag |-> Round53(MagSub(y.mag, x.mag))]
             ELSE [neg |-> x.neg, mag |-> Round53(MagSub(x.mag, y.mag))]

\* x - y
FSub(x, y) ==
    LET
        FNeg(a) == IF a.mag = MagZero THEN a ELSE [neg |-> ~a.neg, mag |-> a.mag]
    IN  FAdd(x, FNeg(y))

\* abs(x)
FAbs(x) == [neg |-> FALSE, mag |-> x.mag]

\* x < y
FLt(x, y) ==
    IF x.neg /\ ~y.neg THEN TRUE
    ELSE IF ~x.neg /\ y.neg THEN FALSE
    ELSE IF x.neg THEN MagLt(y.mag, x.mag)
    ELSE MagLt(x.mag, y.mag)

\* int(x): truncation towards zero
FTrunc(x) ==
    IF x.neg THEN -(x.mag[1] \div UnitHi) ELSE x.mag[1] \div UnitHi

\* the double literals of the weighted formula, as magnitudes:
\* 0.40 = 0x1.999999999999ap-2, 0.25 = 0x1p-2,
\* 0.20 = 0x1.999999999999ap-3, 0.15 = 0x1.3333333333333p-3
DoubleWeights ==
    [tech |-> <<3276, 1677721, 1258292>>,
     exp |-> <<2048, 0, 0>>,
     comp |-> <<1638, 838860, 1677722>>,
     dom |-> <<1228, 1677721, 1258291>>]

-----------------------------------------------------------------------------
(* calculate_hybrid_score *)

FZero == FromInt(0)

NoScoreResult == [base_score |-> 0, final_score |-> 0,
                  confidence_level |-> "", confidence_percentage |-> 0]

\* the weighted formula with the weights of experience and complexity
\* exchanged
WeightedSum_swapped(tech, exp, comp, dom) ==
    FAdd(FAdd(FAdd(FMulInt(tech, DoubleWeights.tech), FMulInt(exp, DoubleWeights.comp)),
              FMulInt(comp, DoubleWeights.exp)),
         FMulInt(dom, DoubleWeights.dom))

\* (tech * 0.40) + (exp * 0.25) + (complexity * 0.20) + (domain * 0.15)
WeightedSum(tech, exp, comp, dom) ==
    FAdd(FAdd(FAdd(FMulInt(tech, DoubleWeights.tech), FMulInt(exp, DoubleWeights.exp)),
              FMulInt(comp, DoubleWeights.comp)),
         FMulInt(dom, DoubleWeights.dom))

\* max(0, min(100, x))
Clamp(x) ==
    LET low == IF FLt(x, FromInt(100)) THEN x ELSE FromInt(100)
    IN  IF FLt(FromInt(0), low) THEN low ELSE FromInt(0)

\* abs(final_score - base_score) with the abs left out
Variance_signed(final, base) == FSub(final, base)

\* abs(final_score - base_score)
Variance(final, base) == FAbs(FSub(final, base))

\* the band with <= in place of <
ConfidenceLevel_le(v) ==
    IF ~FLt(FromInt(10), v) THEN "High"
    ELSE IF ~FLt(FromInt(20), v) THEN "Medium"
    ELSE "Low"

\* the if / elif / else on the variance
ConfidenceLevel(v) ==
    IF FLt(v, FromInt(10)) THEN "High"
    ELSE IF FLt(v, FromInt(20)) THEN "Medium"
    ELSE "Low"

ConfidencePercent(v) ==
    IF FLt(v, FromInt(10)) THEN 95
    ELSE IF FLt(v, FromInt(20)) THEN 75
    ELSE 50

InitScore ==
    LET
        \* sub-scores handed to calculate_hybrid_score
        TechScores == {0, 2, 80, 100}
        ExpScores == {0, 5, 100}
        ComplexityScores == {0, 1, 4, 50, 99}
        DomainScores == {0, 1, 12, 38, 56}
        Adjustments == (-MaxAdjustment)..MaxAdjustment
    IN  /\ hpc = "entry"
        /\ tech_score \in TechScores
        /\ exp_score \in ExpScores
        /\ complexity_score \in ComplexityScores
        /\ domain_score \in DomainScores
        /\ llm_adjustment \in Adjustments
        /\ base_score = FZero
        /\ final_score = FZero
        /\ variance = FZero
        /\ confidence = ""
        /\ conf_percent = 0
        /\ hresult = NoScoreResult
        /\ pc = "idle"
        /\ self_model = FALSE
        /\ reports = <<>>
        /\ reports0 = <<>>
        /\ i = 0
        /\ total_score = 0
        /\ valid_reports_count = 0
        /\ avg_fit_score = 0
        /\ reports_str_list = <<>>
        /\ user_message = [count |-> 0, reports_str |-> <<>>, use_fit_score |-> 0]
        /\ calls = 0
        /\ response = [kind |-> "none", obj |-> <<>>]
        /\ result = <<>>
        /\ tpc = "idle"
        /\ candidate_text = <<>>
        /\ jd_text = <<>>
        /\ jd_skills = {}
        /\ candidate_skills = {}
        /\ tresult = [score |-> 0, matched |-> {}, missing |-> {}]
        /\ xpc = "idle"
        /\ resume_text = <<>>
        /\ exp_jd_text = <<>>
        /\ candidate_years = 0
        /\ required_years = 0
        /\ xresult = 0
        /\ cpc = "idle"
        /\ repos = <<>>
        /\ ci = 0
        /\ ctotal_score = 0
        /\ valid_repos = 0
        /\ cresult = 0
        /\ ppc = "idle"
        /\ llm_configured = FALSE
        /\ req_no = 0
        /\ req = NoRequest
        /\ gh = NoGitHub
        /\ events = <<>>
        /\ scores = <<>>
        /\ ai_result = NoAnswer
        /\ passed_adjustment = NoAdjustment
        /\ scoring_result = NoScoreResult
        /\ http_status = 0
        /\ unhandled = ""
        /\ judge_calls = 0
        /\ candidates = <<>>
        /\ report_files = <<>>
        /\ prev = NoPrevious
        /\ dpc = "idle"
        /\ dom_jd_text = <<>>
        /\ dom_candidate_text = <<>>
        /\ top_jd_keywords = {}
        /\ dmatches = 0
        /\ dresult = 0
        /\ apc = "idle"
        /\ audit_scores = <<>>
        /\ audit_evidence = <<>>
        /\ audit_scores0 = <<>>
        /\ audit_evidence0 = <<>>
        /\ audit_trail = <<>>
        /\ audit_before = <<>>

\* base_score = (tech_score * 0.40) + ... + (domain_score * 0.15)
ComputeBase ==
    /\ hpc = "entry"
    /\ base_score' = WeightedSum(tech_score, exp_score, complexity_score,
                                 domain_score)
    /\ hpc' = "adjust"
    /\ UNCHANGED <<tech_score, exp_score, complexity_score, domain_score,
                   llm_adjustment, final_score, variance, confidence,
                   conf_percent, hresult>>
    /\ UNCHANGED <<aggVars, techVars, expVars, cxVars,
                 pipeVars, domainVars, auditVars>>

\* final_score = base_score + llm_adjustment
ApplyAdjustment ==
    /\ hpc = "adjust"
    /\ final_score' = FAdd(base_score, FromInt(llm_adjustment))
    /\ hpc' = "clamp"
    /\ UNCHANGED <<tech_score, exp_score, complexity_score, domain_score,
                   llm_adjustment, base_score, variance, confidence,
                   conf_percent, hresult>>
    /\ UNCHANGED <<aggVars, techVars, expVars, cxVars,
                 pipeVars, domainVars, auditVars>>

\* final_score = max(0, min(100, final_score))
ClampFinal ==
    /\ hpc = "clamp"
    /\ final_score' = Clamp(final_score)
    /\ hpc' = "confidence"
    /\ UNCHANGED <<tech_score, exp_score, complexity_score, domain_score,
                   llm_adjustment, base_score, variance, confidence,
                   conf_percent, hresult>>
    /\ UNCHANGED <<aggVars, techVars, expVars, cxVars,
                 pipeVars, domainVars, auditVars>>

\* variance = abs(final_score - base_score) and the confidence band
ComputeConfidence ==
    /\ hpc = "confidence"
    /\ LET v == Variance(final_score, base_score)
       IN  /\ variance' = v
           /\ confidence' = ConfidenceLevel(v)
           /\ conf_percent' = ConfidencePercent(v)
    /\ hpc' = "return"
    /\ UNCHANGED <<tech_score, exp_score, complexity_score, domain_score,
                   llm_adjustment, base_score, final_score, hresult>>
    /\ UNCHANGED <<aggVars, techVars, expVars, cxVars,
                 pipeVars, domainVars, auditVars>>

\* return {"base_score": int(base_score), "final_score": int(final_score), ...}
ReturnScore ==
    /\ hpc = "return"
    /\ hresult' = [base_score |-> FTrunc(base_score),
                   final_score |-> FTrunc(final_score),
                   confidence_level |-> confidence,
                   confidence_percentage |-> conf_percent]
    /\ hpc' = "returned"
    /\ UNCHANGED <<tech_score, exp_score, complexity_score, domain_score,
                   llm_adjustment, base_score, final_score, variance,
                   confidence, conf_percent>>
    /\ UNCHANGED <<aggVars, techVars, expVars, cxVars,
                 pipeVars, domainVars, auditVars>>

NextScore ==
    \/ ComputeBase
    \/ ApplyAdjustment
    \/ ClampFinal
    \/ ComputeConfidence
    \/ ReturnScore

SpecScore == InitScore /\ [][NextScore]_vars

-----------------------------------------------------------------------------
(* json.dumps(report, indent=2): every key of the dict with its value      *)
(* rendered as JSON text                                                   *)
JsonDumps(d) ==
    LET
        FitText(v) ==
            CASE v.kind = "int" -> ToString(v.val)
              [] v.kind = "str" -> "\"eighty\""
              [] OTHER -> "null"
    IN  [k \in DOMAIN d |-> IF k = "fit_score" THEN FitText(d[k]) ELSE d[k]]

DefaultName(idx) ==
    LET
        \* f'Model {i+1}' of the 0-based enumerate index, here for the 1-based index
        ModelNames == <<"Model 1", "Model 2", "Model 3", "Model 4", "Model 5">>
    IN  ModelNames[idx]

\* report.pop('model_source', f'Model {i+1}'): the value popped
PopModelSource(report, idx) ==
    IF Has(report, "model_source") THEN report["model_source"]
    ELSE DefaultName(idx)

\* the label read with get() in place of pop(): the key stays
StripLabel_keep(report) == report

\* report.pop('model_source', ...): the dict it leaves behind
StripLabel(report) == Without(report, "model_source")

\* f"--- REPORT {i+1} (from {model_name}) ---\n{json.dumps(report, indent=2)}"
ReportBlock(idx, model_name, popped) ==
    [index |-> idx, from |-> model_name, json |-> JsonDumps(popped)]

\* the f-string user_message: the count, the joined blocks, the average
UserMessage(n, blocks, avg) ==
    [count |-> n, reports_str |-> blocks, use_fit_score |-> avg]

-----------------------------------------------------------------------------
(* What generate_content_async may do: fail, or answer with a text that is *)
(* no JSON, JSON that is no object, or a JSON object.                      *)
FullObject(fit) ==
    [fit_score |-> Num(fit), summary |-> "consensus",
     role_strengths |-> "list", role_weaknesses |-> "list",
     red_flags |-> "list", interview_questions |-> "list"]

Responses ==
    LET
        ProposedFits == {0, 99}
        ResponseObjects ==
            {FullObject(f) : f \in ProposedFits}
              \cup {Without(FullObject(0), "fit_score"),
                    [summary |-> "consensus"],
                    EmptyDict}
    IN  {[kind |-> k, obj |-> EmptyDict] : k \in {"fault", "not_json", "json_array"}}
          \cup {[kind |-> "json_object", obj |-> o] : o \in ResponseObjects}

\* every parsed value taken for a dict
TakesItem_any(resp) == TRUE

\* final_report["fit_score"] = avg_fit_score succeeds: only a dict takes it
TakesItem(resp) == resp.kind = "json_object"

ErrorValue(msg) == [error |-> msg]

NoReportsError == ErrorValue("No valid reports to synthesize.")
SynthesisError == ErrorValue("Error: Could not synthesize the final report.")

\* `not self.model`
NotConfigured(m) == ~m

\* the empty-list guard left out
NoReports_never(rs) == FALSE

\* a single report taken for no report
NoReports_single(rs) == Len(rs) <= 1

\* `not reports`
NoReports(rs) == Len(rs) = 0

-----------------------------------------------------------------------------
(* AggregatorClient.synthesize_reports *)

InitAgg ==
    /\ pc = "entry"
    /\ self_model \in BOOLEAN
    /\ reports \in ReportLists
    /\ reports0 = reports
    /\ i = 0
    /\ total_score = 0
    /\ valid_reports_count = 0
    /\ avg_fit_score = 0
    /\ reports_str_list = <<>>
    /\ user_message = UserMessage(0, <<>>, 0)
    /\ calls = 0
    /\ response = [kind |-> "none", obj |-> EmptyDict]
    /\ result = EmptyDict
    /\ hpc = "idle"
    /\ tech_score = 0
    /\ exp_score = 0
    /\ complexity_score = 0
    /\ domain_score = 0
    /\ llm_adjustment = 0
    /\ base_score = FZero
    /\ final_score = FZero
    /\ variance = FZero
    /\ confidence = ""
    /\ conf_percent = 0
    /\ hresult = NoScoreResult
    /\ tpc = "idle"
    /\ candidate_text = <<>>
    /\ jd_text = <<>>
    /\ jd_skills = {}
    /\ candidate_skills = {}
    /\ tresult = [score |-> 0, matched |-> {}, missing |-> {}]
    /\ xpc = "idle"
    /\ resume_text = <<>>
    /\ exp_jd_text = <<>>
    /\ candidate_years = 0
    /\ required_years = 0
    /\ xresult = 0
    /\ cpc = "idle"
    /\ repos = <<>>
    /\ ci = 0
    /\ ctotal_score = 0
    /\ valid_repos = 0
    /\ cresult = 0
    /\ ppc = "idle"
    /\ llm_configured = FALSE
    /\ req_no = 0
    /\ req = NoRequest
    /\ gh = NoGitHub
    /\ events = <<>>
    /\ scores = <<>>
    /\ ai_result = NoAnswer
    /\ passed_adjustment = NoAdjustment
    /\ scoring_result = NoScoreResult
    /\ http_status = 0
    /\ unhandled = ""
    /\ judge_calls = 0
    /\ candidates = <<>>
    /\ report_files = <<>>
    /\ prev = NoPrevious
    /\ dpc = "idle"
    /\ dom_jd_text = <<>>
    /\ dom_candidate_text = <<>>
    /\ top_jd_keywords = {}
    /\ dmatches = 0
    /\ dresult = 0
    /\ apc = "idle"
    /\ audit_scores = <<>>
    /\ audit_evidence = <<>>
    /\ audit_scores0 = <<>>
    /\ audit_evidence0 = <<>>
    /\ audit_trail = <<>>
    /\ audit_before = <<>>

\* if not self.model: return {"error": ...}
ReturnNotConfigured ==
    LET
        NotConfiguredError == ErrorValue("Aggregator client is not configured.")
    IN  /\ pc = "entry"
        /\ NotConfigured(self_model)
        /\ result' = NotConfiguredError
        /\ pc' = "returned"
        /\ UNCHANGED <<self_model, reports, reports0, i, total_score,
                       valid_reports_count, avg_fit_score, reports_str_list,
                       user_message, calls, response>>
        /\ UNCHANGED <<scoreVars, techVars, expVars, cxVars,
                 pipeVars, domainVars, auditVars>>

\* if not reports: return {"error": ...}
ReturnNoReports ==
    /\ pc = "entry"
    /\ ~NotConfigured(self_model)
    /\ NoReports(reports)
    /\ result' = NoReportsError
    /\ pc' = "returned"
    /\ UNCHANGED <<self_model, reports, reports0, i, total_score,
                   valid_reports_count, avg_fit_score, reports_str_list,
                   user_message, calls, response>>
    /\ UNCHANGED <<scoreVars, techVars, expVars, cxVars,
                 pipeVars, domainVars, auditVars>>

\* total_score = 0; valid_reports_count = 0; for report in reports:
BeginAverage ==
    /\ pc = "entry"
    /\ ~NotConfigured(self_model)
    /\ ~NoReports(reports)
    /\ total_score' = 0
    /\ valid_reports_count' = 0
    /\ i' = 1
    /\ pc' = "average"
    /\ UNCHANGED <<self_model, reports, reports0, avg_fit_score,
                   reports_str_list, user_message, calls, response, result>>
    /\ UNCHANGED <<scoreVars, techVars, expVars, cxVars,
                 pipeVars, domainVars, auditVars>>

\* `"fit_score" in report`
CarriesFitScore(report) == Has(report, "fit_score")

\* total_score += report.get("fit_score", 0) raises TypeError unless the
\* value is a number
AddRaises(report) == ~IsNumber(report["fit_score"])

\* one iteration of the averaging loop
AverageStep ==
    /\ pc = "average"
    /\ i <= Len(reports)
    /\ IF CarriesFitScore(reports[i])
       THEN IF AddRaises(reports[i])
            THEN /\ pc' = "raised"
                 /\ UNCHANGED <<total_score, valid_reports_count, i>>
            ELSE /\ total_score' = total_score + reports[i]["fit_score"].val
                 /\ valid_reports_count' = valid_reports_count + 1
                 /\ i' = i + 1
                 /\ pc' = pc
       ELSE /\ i' = i + 1
            /\ UNCHANGED <<total_score, valid_reports_count, pc>>
    /\ UNCHANGED <<self_model, reports, reports0, avg_fit_score,
                   reports_str_list, user_message, calls, response, result>>
    /\ UNCHANGED <<scoreVars, techVars, expVars, cxVars,
                 pipeVars, domainVars, auditVars>>

\* the sum of the fit scores in place of their rounded mean
Average_total(total, count) == total

\* round(total_score / valid_reports_count) if valid_reports_count > 0 else 0
Average(total, count) == IF count > 0 THEN PyRound(total, count) ELSE 0

\* the averaging loop is over: avg_fit_score; reports_str_list = []
EndAverage ==
    /\ pc = "average"
    /\ i > Len(reports)
    /\ avg_fit_score' = Average(total_score, valid_reports_count)
    /\ reports_str_list' = <<>>
    /\ i' = 1
    /\ pc' = "prompt"
    /\ UNCHANGED <<self_model, reports, reports0, total_score,
                   valid_reports_count, user_message, calls, response, result>>
    /\ UNCHANGED <<scoreVars, techVars, expVars, cxVars,
                 pipeVars, domainVars, auditVars>>

\* one iteration of the prompt loop: pop the label, append the block
PromptStep ==
    /\ pc = "prompt"
    /\ i <= Len(reports)
    /\ LET model_name == PopModelSource(reports[i], i)
           popped == StripLabel(reports[i])
       IN  /\ reports' = [reports EXCEPT ![i] = popped]
           /\ reports_str_list' =
                Append(reports_str_list, ReportBlock(i, model_name, popped))
    /\ i' = i + 1
    /\ UNCHANGED <<pc, self_model, reports0, total_score, valid_reports_count,
                   avg_fit_score, user_message, calls, response, result>>
    /\ UNCHANGED <<scoreVars, techVars, expVars, cxVars,
                 pipeVars, domainVars, auditVars>>

\* the prompt loop is over: reports_str is joined, user_message is built
BuildMessage ==
    /\ pc = "prompt"
    /\ i > Len(reports)
    /\ user_message' = UserMessage(Len(reports), reports_str_list, avg_fit_score)
    /\ pc' = "call"
    /\ UNCHANGED <<self_model, reports, reports0, i, total_score,
                   valid_reports_count, avg_fit_score, reports_str_list,
                   calls, response, result>>
    /\ UNCHANGED <<scoreVars, techVars, expVars, cxVars,
                 pipeVars, domainVars, auditVars>>

\* await self.model.generate_content_async([AGGREGATOR_SYSTEM_PROMPT, user_message])
CallSynthesizer ==
    /\ pc = "call"
    /\ calls' = calls + 1
    /\ response' \in Responses
    /\ pc' = "await"
    /\ UNCHANGED <<self_model, reports, reports0, i, total_score,
                   valid_reports_count, avg_fit_score, reports_str_list,
                   user_message, result>>
    /\ UNCHANGED <<scoreVars, techVars, expVars, cxVars,
                 pipeVars, domainVars, auditVars>>

\* the collaborator's fit_score kept when it gave one
Override_keep(final_report, avg) ==
    IF Has(final_report, "fit_score") THEN final_report
    ELSE Put(final_report, "fit_score", Num(avg))

\* final_report["fit_score"] = avg_fit_score
Override(final_report, avg) == Put(final_report, "fit_score", Num(avg))

\* the try block: parse, override, return; any exception gives the error dict
FinishSynthesis ==
    LET
        \* the await and json.loads(response.text) succeed
        Parses(r) == r.kind \in {"json_array", "json_object"}
    IN  /\ pc = "await"
        /\ result' = IF Parses(response) /\ TakesItem(response)
                     THEN Override(response.obj, avg_fit_score)
                     ELSE SynthesisError
        /\ pc' = "returned"
        /\ UNCHANGED <<self_model, reports, reports0, i, total_score,
                       valid_reports_count, avg_fit_score, reports_str_list,
                       user_message, calls, response>>
        /\ UNCHANGED <<scoreVars, techVars, expVars, cxVars,
                 pipeVars, domainVars, auditVars>>

NextAgg ==
    \/ ReturnNotConfigured
    \/ ReturnNoReports
    \/ BeginAverage
    \/ AverageStep
    \/ EndAverage
    \/ PromptStep
    \/ BuildMessage
    \/ CallSynthesizer
    \/ FinishSynthesis

SpecAgg == InitAgg /\ [][NextAgg]_vars

-----------------------------------------------------------------------------
(* extract_skills and calculate_technical_match.  A str is the sequence of *)
(* its characters.                                                         *)

COMMON_SKILLS ==
    {<<"p", "y", "t", "h", "o", "n">>,
     <<"j", "a", "v", "a">>,
     <<"c", "+", "+">>,
     <<"j", "a", "v", "a", "s", "c", "r", "i", "p", "t">>,
     <<"t", "y", "p", "e", "s", "c", "r", "i", "p", "t">>,
     <<"r", "e", "a", "c", "t">>,
     <<"a", "n", "g", "u", "l", "a", "r">>,
     <<"v", "u", "e">>,
     <<"f", "a", "s", "t", "a", "p", "i">>,
     <<"d", "j", "a", "n", "g", "o">>,
     <<"f", "l", "a", "s", "k">>,
     <<"s", "p", "r", "i", "n", "g">>,
     <<"n", "o", "d", "e", ".", "j", "s">>,
     <<"e", "x", "p", "r", "e", "s", "s">>,
     <<"d", "o", "c", "k", "e", "r">>,
     <<"k", "u", "b", "e", "r", "n", "e", "t", "e", "s">>,
     <<"a", "w", "s">>,
     <<"a", "z", "u", "r", "e">>,
     <<"g", "c", "p">>,
     <<"t", "e", "r", "r", "a", "f", "o", "r", "m">>,
     <<"s", "q", "l">>,
     <<"p", "o", "s", "t", "g", "r", "e", "s", "q", "l">>,
     <<"m", "y", "s", "q", "l">>,
     <<"m", "o", "n", "g", "o", "d", "b">>,
     <<"r", "e", "d", "i", "s">>,
     <<"e", "l", "a", "s", "t", "i", "c", "s", "e", "a", "r", "c", "h">>,
     <<"m", "a", "c", "h", "i", "n", "e", " ", "l", "e", "a", "r", "n", "i", "n", "g">>,
     <<"d", "e", "e", "p", " ", "l", "e", "a", "r", "n", "i", "n", "g">>,
     <<"p", "y", "t", "o", "r", "c", "h">>,
     <<"t", "e", "n", "s", "o", "r", "f", "l", "o", "w">>,
     <<"s", "c", "i", "k", "i", "t", "-", "l", "e", "a", "r", "n">>,
     <<"g", "i", "t">>,
     <<"c", "i", "/", "c", "d">>,
     <<"l", "i", "n", "u", "x">>,
     <<"a", "g", "i", "l", "e">>,
     <<"s", "c", "r", "u", "m">>,
     <<"r", "e", "s", "t", " ", "a", "p", "i">>,
     <<"g", "r", "a", "p", "h", "q", "l">>}

UpperCase == <<"A", "B", "C", "D", "E", "F", "G", "H", "I", "J", "K", "L", "M",
               "N", "O", "P", "Q", "R", "S", "T", "U", "V", "W", "X", "Y", "Z">>
LowerCase == <<"a", "b", "c", "d", "e", "f", "g", "h", "i", "j", "k", "l", "m",
               "n", "o", "p", "q", "r", "s", "t", "u", "v", "w", "x", "y", "z">>
Digits == {"0", "1", "2", "3", "4", "5", "6", "7", "8", "9"}

Lower(text) ==
    LET
        \* str.lower()
        LowerChar(c) ==
            IF \E k \in 1..26 : UpperCase[k] = c
            THEN LowerCase[CHOOSE k \in 1..26 : UpperCase[k] = c]
            ELSE c
    IN  [k \in 1..Len(text) |-> LowerChar(text[k])]

\* `skill in text` for two strs
Contains(text, skill) ==
    \E k \in 0..(Len(text) - Len(skill)) :
        \A j \in 1..Len(skill) : text[k + j] = skill[j]

\* text.split(): the maximal runs of characters other than the space, read
\* from position k on with the run cur open
RECURSIVE SplitFrom(_, _, _)
SplitFrom(text, k, cur) ==
    IF k > Len(text)
    THEN (IF cur = <<>> THEN <<>> ELSE <<cur>>)
    ELSE IF text[k] = " "
         THEN (IF cur = <<>> THEN <<>> ELSE <<cur>>) \o SplitFrom(text, k + 1, <<>>)
         ELSE SplitFrom(text, k + 1, Append(cur, text[k]))

\* extract_skills(text)
ExtractSkills(text) ==
    LET
        \* the list the for-loop of extract_skills walks
        MultiWordSkills ==
            {<<"m", "a", "c", "h", "i", "n", "e", " ", "l", "e", "a", "r", "n", "i", "n", "g">>,
             <<"d", "e", "e", "p", " ", "l", "e", "a", "r", "n", "i", "n", "g">>,
             <<"c", "i", "/", "c", "d">>,
             <<"r", "e", "s", "t", " ", "a", "p", "i">>}
        \* the character class [a-z0-9+.]
        Kept == {LowerCase[k] : k \in 1..26} \cup Digits \cup {"+", "."}
        \* re.sub(r'[^a-z0-9+.]', ' ', t)
        SubNonAlnum(t) ==
            [k \in 1..Len(t) |-> IF t[k] \in Kept THEN t[k] ELSE " "]
        \* set(t.split())
        Words(t) ==
            LET ws == SplitFrom(t, 1, <<>>) IN {ws[k] : k \in 1..Len(ws)}
    IN  IF Len(text) = 0 THEN {}
        ELSE LET cleaned == SubNonAlnum(Lower(text))
             IN  {skill \in MultiWordSkills : Contains(cleaned, skill)}
                   \cup (Words(cleaned) \cap COMMON_SKILLS)

\* int((len(matches) / len(jd_skills)) * 100) with the int() taken for round()
MatchPercent_round(m, n) ==
    LET q == (100 * m) \div n
        r == (100 * m) % n
    IN  IF 2 * r < n THEN q
        ELSE IF 2 * r > n THEN q + 1
        ELSE IF q % 2 = 0 THEN q ELSE q + 1

\* int((len(matches) / len(jd_skills)) * 100): for 0 <= m <= n <= 38, the
\* size of COMMON_SKILLS, the double (m / n) * 100 truncates to the integer
\* quotient of 100 * m by n
MatchPercent(m, n) == (100 * m) \div n

FragmentList ==
    LET
        \* the texts the function is called with: some of these fragments, each at
        \* most once, in this order, joined by single spaces
        FragPython == <<"P", "y", "t", "h", "o", "n">>
        FragSql == <<"s", "q", "l", ",">>
        FragJava == <<"j", "a", "v", "a">>
        FragCiCd == <<"C", "I", "/", "C", "D">>
        FragMachineLearning == <<"M", "a", "c", "h", "i", "n", "e", " ", "L", "e", "a", "r", "n", "i", "n", "g">>
        FragGolang == <<"g", "o", "l", "a", "n", "g">>
        FragRestApi == <<"r", "e", "s", "t", " ", "a", "p", "i">>
        FragNodeJs == <<"n", "o", "d", "e", ".", "j", "s">>
    IN  <<FragPython, FragSql, FragJava, FragCiCd, FragMachineLearning,
          FragGolang, FragRestApi, FragNodeJs>>

\* the fragments chosen by the index set S, from index k on, joined
RECURSIVE JoinFrom(_, _)
JoinFrom(S, k) ==
    IF k > Len(FragmentList) THEN <<>>
    ELSE IF k \notin S THEN JoinFrom(S, k + 1)
    ELSE IF \E j \in S : j > k
         THEN FragmentList[k] \o <<" ">> \o JoinFrom(S, k + 1)
         ELSE FragmentList[k]

TextsUpTo(n) ==
    {JoinFrom(S, 1) : S \in {T \in SUBSET (1..Len(FragmentList)) :
                                 Cardinality(T) <= n}}

NoMatchResult == [score |-> 0, matched |-> {}, missing |-> {}]

InitTech ==
    /\ tpc = "entry"
    /\ jd_text \in TextsUpTo(MaxFragments)
    /\ candidate_text \in TextsUpTo(MaxFragments - 1)
    /\ jd_skills = {}
    /\ candidate_skills = {}
    /\ tresult = NoMatchResult
    /\ pc = "idle"
    /\ self_model = FALSE
    /\ reports = <<>>
    /\ reports0 = <<>>
    /\ i = 0
    /\ total_score = 0
    /\ valid_reports_count = 0
    /\ avg_fit_score = 0
    /\ reports_str_list = <<>>
    /\ user_message = [count |-> 0, reports_str |-> <<>>, use_fit_score |-> 0]
    /\ calls = 0
    /\ response = [kind |-> "none", obj |-> <<>>]
    /\ result = <<>>
    /\ hpc = "idle"
    /\ tech_score = 0
    /\ exp_score = 0
    /\ complexity_score = 0
    /\ domain_score = 0
    /\ llm_adjustment = 0
    /\ base_score = FZero
    /\ final_score = FZero
    /\ variance = FZero
    /\ confidence = ""
    /\ conf_percent = 0
    /\ hresult = NoScoreResult
    /\ xpc = "idle"
    /\ resume_text = <<>>
    /\ exp_jd_text = <<>>
    /\ candidate_years = 0
    /\ required_years = 0
    /\ xresult = 0
    /\ cpc = "idle"
    /\ repos = <<>>
    /\ ci = 0
    /\ ctotal_score = 0
    /\ valid_repos = 0
    /\ cresult = 0
    /\ ppc = "idle"
    /\ llm_configured = FALSE
    /\ req_no = 0
    /\ req = NoRequest
    /\ gh = NoGitHub
    /\ events = <<>>
    /\ scores = <<>>
    /\ ai_result = NoAnswer
    /\ passed_adjustment = NoAdjustment
    /\ scoring_result = NoScoreResult
    /\ http_status = 0
    /\ unhandled = ""
    /\ judge_calls = 0
    /\ candidates = <<>>
    /\ report_files = <<>>
    /\ prev = NoPrevious
    /\ dpc = "idle"
    /\ dom_jd_text = <<>>
    /\ dom_candidate_text = <<>>
    /\ top_jd_keywords = {}
    /\ dmatches = 0
    /\ dresult = 0
    /\ apc = "idle"
    /\ audit_scores = <<>>
    /\ audit_evidence = <<>>
    /\ audit_scores0 = <<>>
    /\ audit_evidence0 = <<>>
    /\ audit_trail = <<>>
    /\ audit_before = <<>>

\* jd_skills = extract_skills(jd_text)
ExtractJdSkills ==
    /\ tpc = "entry"
    /\ jd_skills' = ExtractSkills(jd_text)
    /\ tpc' = "candidate"
    /\ UNCHANGED <<candidate_text, jd_text, candidate_skills, tresult>>
    /\ UNCHANGED <<aggVars, scoreVars, expVars, cxVars,
                 pipeVars, domainVars, auditVars>>

\* candidate_skills = extract_skills(candidate_text)
ExtractCandidateSkills ==
    /\ tpc = "candidate"
    /\ candidate_skills' = ExtractSkills(candidate_text)
    /\ tpc' = "match"
    /\ UNCHANGED <<candidate_text, jd_text, jd_skills, tresult>>
    /\ UNCHANGED <<aggVars, scoreVars, expVars, cxVars,
                 pipeVars, domainVars, auditVars>>

\* if not jd_skills: return 0, [], []
ReturnNoJdSkills ==
    /\ tpc = "match"
    /\ jd_skills = {}
    /\ tresult' = NoMatchResult
    /\ tpc' = "returned"
    /\ UNCHANGED <<candidate_text, jd_text, jd_skills, candidate_skills>>
    /\ UNCHANGED <<aggVars, scoreVars, expVars, cxVars,
                 pipeVars, domainVars, auditVars>>

\* matches, missing, score; return score, list(matches), list(missing)
\* (a list made of a set: the order of its elements is not specified)
ReturnMatch ==
    /\ tpc = "match"
    /\ jd_skills # {}
    /\ LET matches == jd_skills \cap candidate_skills
           missing == jd_skills \ candidate_skills
       IN  tresult' = [score |-> MatchPercent(Cardinality(matches),
                                             Cardinality(jd_skills)),
                       matched |-> matches,
                       missing |-> missing]
    /\ tpc' = "returned"
    /\ UNCHANGED <<candidate_text, jd_text, jd_skills, candidate_skills>>
    /\ UNCHANGED <<aggVars, scoreVars, expVars, cxVars,
                 pipeVars, domainVars, auditVars>>

NextTech ==
    \/ ExtractJdSkills
    \/ ExtractCandidateSkills
    \/ ReturnNoJdSkills
    \/ ReturnMatch

SpecTech == InitTech /\ [][NextTech]_vars

-----------------------------------------------------------------------------
(* synthesize_reports as a function of its argument: the average and the   *)
(* message it sends for a list rs whose fit_scores are all numbers         *)

RECURSIVE SumCarried(_)
SumCarried(rs) ==
    IF rs = <<>> THEN 0
    ELSE (IF CarriesFitScore(Head(rs)) /\ IsNumber(Head(rs)["fit_score"])
          THEN Head(rs)["fit_score"].val ELSE 0) + SumCarried(Tail(rs))

RECURSIVE CountCarried(_)
CountCarried(rs) ==
    IF rs = <<>> THEN 0
    ELSE (IF CarriesFitScore(Head(rs)) THEN 1 ELSE 0) + CountCarried(Tail(rs))

RECURSIVE CountNumeric(_)
CountNumeric(rs) ==
    IF rs = <<>> THEN 0
    ELSE (IF CarriesFitScore(Head(rs)) /\ IsNumber(Head(rs)["fit_score"])
          THEN 1 ELSE 0) + CountNumeric(Tail(rs))

MessageFor(rs) ==
    UserMessage(Len(rs),
                [k \in 1..Len(rs) |->
                    ReportBlock(k, PopModelSource(rs[k], k), StripLabel(rs[k]))],
                Average(SumCarried(rs), CountCarried(rs)))

\* rs with the source label of each report replaced as lab says
Relabel(rs, lab) ==
    [k \in 1..Len(rs) |->
        IF lab[k] = NoLabel THEN StripLabel(rs[k])
        ELSE Put(rs[k], "model_source", lab[k])]

Relabelings(rs) ==
    LET
        GeminiLabel == "Gemini 2.5 Pro"
        AllLabels == {NoLabel, OpenAILabel, GeminiLabel}
    IN  [1..Len(rs) -> AllLabels]

IsError(v) == Has(v, "error")

HasExpectedShape(resp) ==
    LET
        \* the keys AGGREGATOR_SYSTEM_PROMPT asks the final JSON to have
        ExpectedShape ==
            {"fit_score", "summary", "role_strengths", "role_weaknesses",
             "red_flags", "interview_questions"}
    IN  resp.kind = "json_object" /\ ExpectedShape \subseteq DOMAIN resp.obj

-----------------------------------------------------------------------------
(* Claims about AggregatorClient.synthesize_reports *)

\* C1: whenever synthesize_reports returns a report (not an error) for a
\* non-empty list of which at least one report carries a fit_score, the
\* returned fit_score is round(sum / count) over the reports carrying one,
\* whatever fit_score the synthesis collaborator proposed.
C1_FitScoreIsAverage ==
    (pc = "returned" /\ ~IsError(result) /\ CountCarried(reports0) > 0)
        => result["fit_score"] =
             Num(PyRound(SumCarried(reports0), CountCarried(reports0)))

\* inputs 80 and 60, the collaborator proposes 99, 70 is returned
C1_Witness ==
    /\ pc = "returned"
    /\ Len(reports0) = 2
    /\ reports0[1] = MkReport(Num(80), OpenAILabel)
    /\ reports0[2] = MkReport(Num(60), NoLabel)
    /\ response = [kind |-> "json_object", obj |-> FullObject(99)]
    /\ result["fit_score"] = Num(70)

\* C2: called with an empty list, synthesize_reports raises nothing, never
\* invokes the synthesis collaborator, and what it returns is an error value.
C2_EmptyListIsError ==
    (reports0 = <<>>)
        => /\ pc \in {"entry", "returned"}
           /\ calls = 0
           /\ (pc = "returned" => IsError(result))

C2_Witness ==
    /\ reports0 = <<>>
    /\ self_model
    /\ pc = "returned"
    /\ result = NoReportsError
    /\ calls = 0

\* C3 as claimed: a call with exactly one report returns that report with
\* only its source label removed and never invokes the collaborator.
C3_SingleReportShortcut ==
    (pc = "returned" /\ self_model /\ Len(reports0) = 1)
        => /\ calls = 0
           /\ result = StripLabel(reports0[1])

\* C3 amended: a configured call with exactly one report that returns has
\* removed that report's source label in place and has invoked the
\* collaborator exactly once, as for any longer list; it returns the
\* collaborator's object with fit_score overwritten by the average, or the
\* synthesis error.
C3_SingleReportIsSynthesized ==
    (pc = "returned" /\ self_model /\ Len(reports0) = 1)
        => /\ calls = 1
           /\ reports = <<StripLabel(reports0[1])>>
           /\ user_message = MessageFor(reports0)
           /\ \/ result = SynthesisError
              \/ /\ response.kind = "json_object"
                 /\ result = Put(response.obj, "fit_score",
                                 Num(Average(SumCarried(reports0),
                                             CountCarried(reports0))))

C3_Witness ==
    /\ pc = "returned"
    /\ self_model
    /\ reports0 = <<MkReport(Num(80), OpenAILabel)>>
    /\ reports = <<MkReport(Num(80), NoLabel)>>
    /\ calls = 1
    /\ result = FullObject(80)

\* the message without the "(from ...)" headers of its blocks
Bodies(msg) ==
    [count |-> msg.count,
     use_fit_score |-> msg.use_fit_score,
     reports_str |-> [k \in DOMAIN msg.reports_str |->
                        [index |-> msg.reports_str[k].index,
                         json |-> msg.reports_str[k].json]]]

\* C4 as claimed: the message sent to the collaborator is the same for any
\* two inputs that differ only in their source labels.
C4_MessageIgnoresLabels ==
    (pc = "call")
        => \A lab \in Relabelings(reports0) :
              MessageFor(Relabel(reports0, lab)) = user_message

\* C4 amended: the JSON body of every report block, the report count and
\* the fit_score named in the message are the same for any two inputs that
\* differ only in their source labels, and no body holds a model_source
\* key; the label itself is sent, in the "(from ...)" header of its block.
C4_BodiesIgnoreLabels ==
    (pc = "call")
        => /\ \A lab \in Relabelings(reports0) :
                 Bodies(MessageFor(Relabel(reports0, lab))) = Bodies(user_message)
           /\ \A k \in 1..Len(reports0) :
                 /\ ~Has(user_message.reports_str[k].json, "model_source")
                 /\ user_message.reports_str[k].from =
                      PopModelSource(reports0[k], k)

C4_Witness ==
    /\ pc = "call"
    /\ Len(reports0) = 2
    /\ Has(reports0[1], "model_source")
    /\ ~Has(reports0[2], "model_source")
    /\ user_message.reports_str[1].from = OpenAILabel
    /\ user_message.reports_str[2].from = "Model 2"

\* C5 as claimed: a report without fit_score, or with one that is no number,
\* is left out of the sum and the count, and never makes the call raise.
C5_MalformedScoreExcluded ==
    /\ pc # "raised"
    /\ (pc \in {"prompt", "call"} \/ calls = 1)
          => avg_fit_score =
               Average(SumCarried(reports0), CountNumeric(reports0))

\* C6 as claimed: a failed call, or an answer without the expected report
\* shape, gives a structured error.
C6_BadShapeIsError ==
    (pc = "returned" /\ calls = 1 /\ ~HasExpectedShape(response))
        => IsError(result)

\* C6 amended: a failed call, an answer that is no JSON, or JSON that is no
\* object gives the synthesis error and nothing is raised once the message
\* is built; a JSON object is returned, whatever keys it has, with its
\* fit_score set to the average.
C6_UnparsableIsError ==
    /\ (calls = 1 => pc \in {"await", "returned"})
    /\ (pc = "returned" /\ calls = 1)
          => IF response.kind = "json_object"
             THEN /\ ~IsError(result)
                  /\ result = Put(response.obj, "fit_score", Num(avg_fit_score))
             ELSE result = SynthesisError

C6_Witness ==
    /\ pc = "returned"
    /\ calls = 1
    /\ response.kind = "not_json"
    /\ result = SynthesisError

-----------------------------------------------------------------------------
(* Claims about calculate_hybrid_score *)

\* |final_score - base_score| of the returned integer fields
ReturnedDistance ==
    LET
        AbsInt(n) == IF n < 0 THEN -n ELSE n
    IN  AbsInt(hresult.final_score - hresult.base_score)

\* C7 as claimed: the returned integers satisfy
\* final_score = clamp(base_score + adjustment, 0, 100), so final_score is
\* in 0..100.
C7_FinalIsClampedSum ==
    LET
        ClampInt(n) == IF n < 0 THEN 0 ELSE IF n > 100 THEN 100 ELSE n
    IN  (hpc = "returned")
            => /\ hresult.final_score = ClampInt(hresult.base_score + llm_adjustment)
               /\ hresult.final_score \in 0..100

\* C8: the band is decided by strict comparisons of the variance with 10
\* and 20: below 10 High/0.95, from 10 up to but excluding 20 Medium/0.75,
\* 20 or more Low/0.50; the percentage is the one paired with the level;
\* 80, 100, 50, 0 with adjustment +20 returns base 67, final 87 and Low.
C8_ConfidenceBands ==
    LET
        \* the variance is below n
        VarianceBelow(n) == MagLt(variance.mag, <<n * UnitHi, 0, 0>>)
    IN  (hpc \in {"return", "returned"})
            => /\ ~variance.neg
               /\ VarianceBelow(10) => confidence = "High" /\ conf_percent = 95
               /\ (~VarianceBelow(10) /\ VarianceBelow(20))
                     => confidence = "Medium" /\ conf_percent = 75
               /\ ~VarianceBelow(20) => confidence = "Low" /\ conf_percent = 50
               /\ (hpc = "returned" /\ tech_score = 80 /\ exp_score = 100
                     /\ complexity_score = 50 /\ domain_score = 0
                     /\ llm_adjustment = 20)
                     => /\ hresult.base_score = 67
                        /\ hresult.final_score = 87
                        /\ hresult.confidence_level = "Low"
                        /\ hresult.confidence_percentage = 50

\* a variance of exactly 10 is met, and it is Medium
C8_Witness ==
    /\ hpc = "returned"
    /\ variance = FromInt(10)
    /\ hresult.confidence_level = "Medium"
    /\ hresult.confidence_percentage = 75

\* C9 as claimed: confidence_level is the band of |final_score - base_score|
\* of the returned fields.
C9_LevelFromReturnedFields ==
    LET
        BandOfInt(d) == IF d < 10 THEN "High" ELSE IF d < 20 THEN "Medium" ELSE "Low"
    IN  (hpc = "returned")
            => hresult.confidence_level = BandOfInt(ReturnedDistance)

\* C9 amended: confidence_level is the band of the variance of the doubles
\* before they are truncated; the returned fields decide it only away from
\* the thresholds: a distance of at most 9 is High, of 11..19 Medium, of 21
\* or more Low, while 10 goes with High or Medium and 20 with Medium or Low.
C9_LevelFromUnroundedVariance ==
    (hpc = "returned")
        => /\ variance = FAbs(FSub(final_score, base_score))
           /\ hresult.confidence_level = ConfidenceLevel(variance)
           /\ ReturnedDistance <= 9 => hresult.confidence_level = "High"
           /\ ReturnedDistance = 10 => hresult.confidence_level \in {"High", "Medium"}
           /\ ReturnedDistance \in 11..19 => hresult.confidence_level = "Medium"
           /\ ReturnedDistance = 20 => hresult.confidence_level \in {"Medium", "Low"}
           /\ ReturnedDistance >= 21 => hresult.confidence_level = "Low"

\* 100, 100, 99, 38 with +10: 90.5 is clamped to 100, the variance is 9.5
\* and High, the returned fields are 90 and 100
C9_Witness ==
    /\ hpc = "returned"
    /\ tech_score = 100 /\ exp_score = 100
    /\ complexity_score = 99 /\ domain_score = 38
    /\ llm_adjustment = 10
    /\ hresult.base_score = 90
    /\ hresult.final_score = 100
    /\ hresult.confidence_level = "High"

-----------------------------------------------------------------------------
(* Claims about calculate_technical_match *)

\* C10 as claimed: for a job description with a recognized skill the result
\* is (round(100 * |matched| / |jd_skills|), jd_skills /\ candidate_skills,
\* jd_skills \ candidate_skills); with none it is (0, [], []).
C10_ScoreIsRounded ==
    (tpc = "returned")
        => LET jd == ExtractSkills(jd_text)
               cand == ExtractSkills(candidate_text)
           IN  IF jd = {} THEN tresult = NoMatchResult
               ELSE /\ tresult.matched = jd \cap cand
                    /\ tresult.missing = jd \ cand
                    /\ tresult.score =
                         PyRound(100 * Cardinality(jd \cap cand), Cardinality(jd))

\* C10 amended: the score is 100 * |matched| / |jd_skills| truncated to an
\* integer, not rounded (2 of 3 skills score 66); matched, missing and the
\* (0, [], []) of a job description without recognized skill are as claimed.
C10_ScoreIsTruncated ==
    (tpc = "returned")
        => LET jd == ExtractSkills(jd_text)
               cand == ExtractSkills(candidate_text)
               m == Cardinality(jd \cap cand)
               n == Cardinality(jd)
           IN  IF jd = {} THEN tresult = NoMatchResult
               ELSE /\ tresult.matched = jd \cap cand
                    /\ tresult.missing = jd \ cand
                    /\ tresult.score * n <= 100 * m
                    /\ 100 * m < (tresult.score + 1) * n

\* two of three required skills matched: 66
C10_Witness ==
    /\ tpc = "returned"
    /\ Cardinality(jd_skills) = 3
    /\ Cardinality(tresult.matched) = 2
    /\ Cardinality(tresult.missing) = 1
    /\ tresult.score = 66

-----------------------------------------------------------------------------
(* app/analysis/experience_calculator.py *)

\* the characters \s matches among those the texts are made of
Whitespace == {" ", "\t", "\n"}

\* the first position from k on that holds no digit
RECURSIVE DigitRunEnd(_, _)
DigitRunEnd(text, k) ==
    IF k <= Len(text) /\ text[k] \in Digits
    THEN DigitRunEnd(text, k + 1) ELSE k

\* the first position from k on that holds no whitespace
RECURSIVE SkipWhitespace(_, _)
SkipWhitespace(text, k) ==
    IF k <= Len(text) /\ text[k] \in Whitespace
    THEN SkipWhitespace(text, k + 1) ELSE k

\* int(m) of the digits text[a..b-1], acc being the value of those read
RECURSIVE ParseInt(_, _, _, _)
ParseInt(text, a, b, acc) ==
    LET
        DigitChars == <<"0", "1", "2", "3", "4", "5", "6", "7", "8", "9">>
        DigitValue(c) == (CHOOSE k \in 1..10 : DigitChars[k] = c) - 1
    IN  IF a >= b THEN acc
        ELSE ParseInt(text, a + 1, b, 10 * acc + DigitValue(text[a]))

\* re.findall(r'(\d+)\+?\s*years?', text) from position k on, each group
\* already through int(). A match starts at a digit and takes the whole run
\* of digits: the run is followed by no digit, so giving digits back never
\* makes the rest match. After a match the scan goes on behind it.
RECURSIVE FindYears(_, _)
FindYears(text, k) ==
    LET
        YearWord == <<"y", "e", "a", "r">>
        \* t holds the word at position p
        HasAt(t, p, word) ==
            /\ p + Len(word) - 1 <= Len(t)
            /\ \A j \in 1..Len(word) : t[p + j - 1] = word[j]
    IN  IF k > Len(text) THEN <<>>
        ELSE IF text[k] \notin Digits THEN FindYears(text, k + 1)
        ELSE LET e == DigitRunEnd(text, k)
                 p == IF e <= Len(text) /\ text[e] = "+" THEN e + 1 ELSE e
                 w == SkipWhitespace(text, p)
             IN  IF HasAt(text, w, YearWord)
                 THEN LET after == IF w + 4 <= Len(text) /\ text[w + 4] = "s"
                                   THEN w + 5 ELSE w + 4
                      IN  <<ParseInt(text, k, e, 0)>> \o FindYears(text, after)
                 ELSE FindYears(text, k + 1)

\* extract_years_of_experience(text) with the first match returned in place
\* of the largest
ExtractYears_first(text) ==
    IF Len(text) = 0 THEN 0
    ELSE LET matches == FindYears(Lower(text), 1)
         IN  IF matches # <<>> THEN matches[1] ELSE 0

\* extract_years_of_experience(text); the groups are short runs of digits,
\* on which int() does not fail
ExtractYears(text) ==
    LET
        \* max(years)
        MaxOf(s) == CHOOSE m \in {s[k] : k \in 1..Len(s)} :
                        \A k \in 1..Len(s) : s[k] <= m
    IN  IF Len(text) = 0 THEN 0
        ELSE LET matches == FindYears(Lower(text), 1)
             IN  IF matches # <<>> THEN MaxOf(matches) ELSE 0

\* required_years after `if required_years == 0: required_years = 2`
RequiredOrDefault_three(r) == IF r = 0 THEN 3 ELSE r

RequiredOrDefault(r) == IF r = 0 THEN 2 ELSE r

\* the least z with c * 2^z >= r / 2, for 0 < c < r
RECURSIVE ScaleOf(_, _)
ScaleOf(c, r) == IF 2 * c >= r THEN 0 ELSE 1 + ScaleOf(2 * c, r)

\* int((candidate_years / required_years) * 100) with the int() taken for
\* round()
PartialCredit_round(c, r) == PyRound(100 * c, r)

\* int((candidate_years / required_years) * 100) for 0 < c < r < 1024: the
\* product by 100 is rounded to a double, scaled back by 2^-z and truncated
PartialCredit(c, r) ==
    LET
        \* the double n / d of two ints 0 < n < d < 1024, as the magnitude of
        \* (n / d) * 2^z with z = ScaleOf(n, d), which lies in [1/2, 1): a division
        \* by a power of two is exact, so the double n / d is this one times 2^-z.
        \* The quotient is taken limb by limb to 55 binary places; a remainder left
        \* over makes the last place odd, which rounds like the exact quotient.
        QuotientMag(n, d) ==
            LET n0 == n * 2^ScaleOf(n, d)
                hi == (n0 * UnitHi) \div d
                r1 == (n0 * UnitHi) % d
                mid == (r1 * LimbBase) \div d
                r2 == (r1 * LimbBase) % d
                lo == (r2 * LimbBase) \div d
                r3 == (r2 * LimbBase) % d
                sticky == IF r3 # 0 /\ lo % 2 = 0 THEN lo + 1 ELSE lo
            IN  Round53(<<hi, mid, sticky>>)
    IN  FTrunc(FMulInt(100, QuotientMag(c, r))) \div 2^ScaleOf(c, r)

YearFragments ==
    LET
        \* the texts the function is called with: some of these fragments, each at
        \* most once, in this order, joined by single spaces
        FragOneYear == <<"1", " ", "y", "e", "a", "r">>
        FragTwoYears == <<"2", " ", " ", "y", "e", "a", "r", "s">>
        FragThreePlus == <<"3", "+", " ", "Y", "e", "a", "r", "s">>
        FragFiveYears == <<"5", " ", "y", "e", "a", "r", "s">>
        FragTwentyNine == <<"2", "9", "\n", "y", "e", "a", "r", "s">>
        FragFifty == <<"5", "0", "y", "e", "a", "r", "s">>
        FragZeroYears == <<"0", " ", "y", "e", "a", "r", "s">>
        FragRange == <<"2", "0", "1", "5", "-", "2", "0", "2", "0">>
        FragYrs == <<"7", " ", "y", "r", "s">>
    IN  <<FragOneYear, FragTwoYears, FragThreePlus, FragFiveYears,
          FragTwentyNine, FragFifty, FragZeroYears, FragRange, FragYrs>>

\* the fragments of list chosen by the index set S, from index k on, joined
RECURSIVE JoinOf(_, _, _)
JoinOf(list, S, k) ==
    IF k > Len(list) THEN <<>>
    ELSE IF k \notin S THEN JoinOf(list, S, k + 1)
    ELSE IF \E j \in S : j > k
         THEN list[k] \o <<" ">> \o JoinOf(list, S, k + 1)
         ELSE list[k]

YearTexts ==
    {JoinOf(YearFragments, S, 1) :
        S \in {T \in SUBSET (1..Len(YearFragments)) :
                  Cardinality(T) <= MaxClauses}}

InitExp ==
    /\ xpc = "entry"
    /\ resume_text \in YearTexts
    /\ exp_jd_text \in YearTexts
    /\ candidate_years = 0
    /\ required_years = 0
    /\ xresult = 0
    /\ pc = "idle"
    /\ self_model = FALSE
    /\ reports = <<>>
    /\ reports0 = <<>>
    /\ i = 0
    /\ total_score = 0
    /\ valid_reports_count = 0
    /\ avg_fit_score = 0
    /\ reports_str_list = <<>>
    /\ user_message = [count |-> 0, reports_str |-> <<>>, use_fit_score |-> 0]
    /\ calls = 0
    /\ response = [kind |-> "none", obj |-> <<>>]
    /\ result = <<>>
    /\ hpc = "idle"
    /\ tech_score = 0
    /\ exp_score = 0
    /\ complexity_score = 0
    /\ domain_score = 0
    /\ llm_adjustment = 0
    /\ base_score = FZero
    /\ final_score = FZero
    /\ variance = FZero
    /\ confidence = ""
    /\ conf_percent = 0
    /\ hresult = NoScoreResult
    /\ tpc = "idle"
    /\ candidate_text = <<>>
    /\ jd_text = <<>>
    /\ jd_skills = {}
    /\ candidate_skills = {}
    /\ tresult = [score |-> 0, matched |-> {}, missing |-> {}]
    /\ cpc = "idle"
    /\ repos = <<>>
    /\ ci = 0
    /\ ctotal_score = 0
    /\ valid_repos = 0
    /\ cresult = 0
    /\ ppc = "idle"
    /\ llm_configured = FALSE
    /\ req_no = 0
    /\ req = NoRequest
    /\ gh = NoGitHub
    /\ events = <<>>
    /\ scores = <<>>
    /\ ai_result = NoAnswer
    /\ passed_adjustment = NoAdjustment
    /\ scoring_result = NoScoreResult
    /\ http_status = 0
    /\ unhandled = ""
    /\ judge_calls = 0
    /\ candidates = <<>>
    /\ report_files = <<>>
    /\ prev = NoPrevious
    /\ dpc = "idle"
    /\ dom_jd_text = <<>>
    /\ dom_candidate_text = <<>>
    /\ top_jd_keywords = {}
    /\ dmatches = 0
    /\ dresult = 0
    /\ apc = "idle"
    /\ audit_scores = <<>>
    /\ audit_evidence = <<>>
    /\ audit_scores0 = <<>>
    /\ audit_evidence0 = <<>>
    /\ audit_trail = <<>>
    /\ audit_before = <<>>

\* candidate_years = extract_years_of_experience(resume_text)
ExtractCandidateYears ==
    /\ xpc = "entry"
    /\ candidate_years' = ExtractYears(resume_text)
    /\ xpc' = "required"
    /\ UNCHANGED <<resume_text, exp_jd_text, required_years, xresult>>
    /\ UNCHANGED <<aggVars, scoreVars, techVars, cxVars,
                 pipeVars, domainVars, auditVars>>

\* required_years = extract_years_of_experience(jd_text)
ExtractRequiredYears ==
    /\ xpc = "required"
    /\ required_years' = ExtractYears(exp_jd_text)
    /\ xpc' = "default"
    /\ UNCHANGED <<resume_text, exp_jd_text, candidate_years, xresult>>
    /\ UNCHANGED <<aggVars, scoreVars, techVars, cxVars,
                 pipeVars, domainVars, auditVars>>

\* if required_years == 0: required_years = 2
DefaultRequired ==
    /\ xpc = "default"
    /\ required_years' = RequiredOrDefault(required_years)
    /\ xpc' = "compare"
    /\ UNCHANGED <<resume_text, exp_jd_text, candidate_years, xresult>>
    /\ UNCHANGED <<aggVars, scoreVars, techVars, cxVars,
                 pipeVars, domainVars, auditVars>>

\* if candidate_years == 0: return 20
ReturnBaseline ==
    /\ xpc = "compare"
    /\ candidate_years = 0
    /\ xresult' = 20
    /\ xpc' = "returned"
    /\ UNCHANGED <<resume_text, exp_jd_text, candidate_years, required_years>>
    /\ UNCHANGED <<aggVars, scoreVars, techVars, cxVars,
                 pipeVars, domainVars, auditVars>>

\* if candidate_years >= required_years: return 100
ReturnFull ==
    /\ xpc = "compare"
    /\ candidate_years # 0
    /\ candidate_years >= required_years
    /\ xresult' = 100
    /\ xpc' = "returned"
    /\ UNCHANGED <<resume_text, exp_jd_text, candidate_years, required_years>>
    /\ UNCHANGED <<aggVars, scoreVars, techVars, cxVars,
                 pipeVars, domainVars, auditVars>>

\* return int((candidate_years / required_years) * 100)
ReturnPartial ==
    /\ xpc = "compare"
    /\ candidate_years # 0
    /\ candidate_years < required_years
    /\ xresult' = PartialCredit(candidate_years, required_years)
    /\ xpc' = "returned"
    /\ UNCHANGED <<resume_text, exp_jd_text, candidate_years, required_years>>
    /\ UNCHANGED <<aggVars, scoreVars, techVars, cxVars,
                 pipeVars, domainVars, auditVars>>

NextExp ==
    \/ ExtractCandidateYears
    \/ ExtractRequiredYears
    \/ DefaultRequired
    \/ ReturnBaseline
    \/ ReturnFull
    \/ ReturnPartial

SpecExp == InitExp /\ [][NextExp]_vars

-----------------------------------------------------------------------------
(* Claims about calculate_experience_score *)

\* C11: with no years detected in the resume the score is 20, whatever the
\* job description says; with detected candidate years at least the
\* required years the score is 100, the required years being 2 when the
\* job description states none (5 years against 3+ years gives 100).
C11_BaselineAndFull ==
    (xpc = "returned")
        => LET c == ExtractYears(resume_text)
               j == ExtractYears(exp_jd_text)
               r == IF j = 0 THEN 2 ELSE j
           IN  /\ c = 0 => xresult = 20
               /\ c >= r => xresult = 100

C11_Witness ==
    /\ xpc = "returned"
    /\ resume_text = YearFragments[4]
    /\ exp_jd_text = YearFragments[3]
    /\ candidate_years = 5
    /\ required_years = 3
    /\ xresult = 100

\* C20 as claimed: with positive candidate years below the required years
\* the score is round(100 * candidate / required), and never 100.
C20_PartialIsRounded ==
    (xpc = "returned" /\ 0 < candidate_years /\ candidate_years < required_years)
        => /\ xresult = PyRound(100 * candidate_years, required_years)
           /\ xresult # 100

\* C20 amended: with positive candidate years below the required years the
\* score is the double (candidate / required) * 100 truncated: the integer
\* quotient of 100 * candidate by required when the division leaves a
\* remainder, that quotient or one less when it leaves none; it lies in
\* 0..99 and is never 100.
C20_PartialIsTruncated ==
    (xpc = "returned" /\ 0 < candidate_years /\ candidate_years < required_years)
        => LET q == (100 * candidate_years) \div required_years
               m == (100 * candidate_years) % required_years
           IN  /\ xresult \in 0..99
               /\ m # 0 => xresult = q
               /\ m = 0 => xresult \in {q - 1, q}

C20_Witness ==
    /\ xpc = "returned"
    /\ resume_text = YearFragments[2]
    /\ exp_jd_text = YearFragments[3]
    /\ candidate_years = 2
    /\ required_years = 3
    /\ xresult = 66

-----------------------------------------------------------------------------
(* app/analysis/github_metrics.py *)

(* values of a repository record: ints, strs (by their length, which is    *)
(* all the function looks at), bools and null                              *)
StrOfLen(n) == [kind |-> "str", val |-> n]
BoolVal(b) == [kind |-> "bool", val |-> IF b THEN 1 ELSE 0]

\* d.get(k, default)
Get(d, k, default) == IF Has(d, k) THEN d[k] ELSE default

\* bool(v): None, 0, False and "" are false
Truthy(v) == v.kind # "null" /\ v.val # 0

\* lines 21-23 with the elif taken for a second if
SizeBonus_adding(repo) ==
    LET size_kb == Get(repo, "size", Num(0))
    IN  (IF size_kb.val > 10000 THEN 20 ELSE 0)
          + (IF size_kb.val > 1000 THEN 10 ELSE 0)

\* lines 21-23
SizeBonus(repo) ==
    LET size_kb == Get(repo, "size", Num(0))
    IN  IF size_kb.val > 10000 THEN 20
        ELSE IF size_kb.val > 1000 THEN 10 ELSE 0

\* the comparisons of lines 22 and 27 raise TypeError
RepoRaises(repo) ==
    LET
        \* `v > n` for an int n is defined for ints and bools; for None and for a
        \* str it raises TypeError
        Ordered(v) == v.kind \in {"int", "bool"}
    IN  \/ ~Ordered(Get(repo, "size", Num(0)))
        \/ ~Ordered(Get(repo, "stargazers_count", Num(0)))

\* repo_score of one pass through the loop body, lines 18-44
RepoScore(repo) ==
    LET
        \* lines 26-28
        StarsBonus(r) ==
            LET stars == Get(r, "stargazers_count", Num(0))
            IN  IF stars.val > 100 THEN 20
                ELSE IF stars.val > 10 THEN 10 ELSE 0
    IN  SizeBonus(repo)
          + StarsBonus(repo)
          + (IF Truthy(Get(repo, "language", NullVal)) THEN 10 ELSE 0)
          + (IF Truthy(Get(repo, "description", NullVal)) THEN 10 ELSE 0)
          + (IF \/ Truthy(Get(repo, "has_wiki", NullVal))
                \/ Truthy(Get(repo, "has_pages", NullVal))
             THEN 10 ELSE 0)
          + (IF ~Truthy(Get(repo, "fork", NullVal)) THEN 30 ELSE 0)

\* lines 53-54 with the int() taken for round()
ComplexityAverage_round(total, valid) ==
    LET avg_score == PyRound(total, valid)
    IN  IF avg_score > 100 THEN 100 ELSE avg_score

\* lines 49-54: the double total_score / valid_repos of two small ints is
\* within an ulp of the exact quotient, so int() of it is the integer
\* quotient
ComplexityAverage(total, valid) ==
    IF valid = 0 THEN 0
    ELSE LET avg_score == total \div valid
         IN  IF avg_score > 100 THEN 100 ELSE avg_score

\* repository records the function is called with: one that earns every
\* bonus, the same with one field changed, and one without any field
FullRepo ==
    [size |-> Num(10001), stargazers_count |-> Num(101),
     language |-> StrOfLen(6), description |-> StrOfLen(4),
     has_wiki |-> BoolVal(TRUE), has_pages |-> BoolVal(FALSE),
     fork |-> BoolVal(FALSE)]

RepoLists ==
    LET
        RepoChoices ==
            {FullRepo, EmptyDict,
             Put(FullRepo, "size", Num(10000)),
             Put(FullRepo, "size", Num(1000)),
             Put(FullRepo, "size", NullVal),
             Put(FullRepo, "stargazers_count", Num(100)),
             Put(FullRepo, "stargazers_count", Num(10)),
             Put(FullRepo, "stargazers_count", NullVal),
             Put(FullRepo, "language", StrOfLen(0)),
             Put(FullRepo, "description", NullVal),
             Put(Put(FullRepo, "has_wiki", BoolVal(FALSE)), "has_pages", BoolVal(TRUE)),
             Without(Put(FullRepo, "has_wiki", BoolVal(FALSE)), "has_pages"),
             Put(FullRepo, "fork", BoolVal(TRUE)),
             Put(FullRepo, "fork", NullVal)}
    IN  UNION {[1..n -> RepoChoices] : n \in 0..MaxRepos}

InitComplexity ==
    /\ cpc = "entry"
    /\ repos \in RepoLists
    /\ ci = 0
    /\ ctotal_score = 0
    /\ valid_repos = 0
    /\ cresult = 0
    /\ pc = "idle"
    /\ self_model = FALSE
    /\ reports = <<>>
    /\ reports0 = <<>>
    /\ i = 0
    /\ total_score = 0
    /\ valid_reports_count = 0
    /\ avg_fit_score = 0
    /\ reports_str_list = <<>>
    /\ user_message = [count |-> 0, reports_str |-> <<>>, use_fit_score |-> 0]
    /\ calls = 0
    /\ response = [kind |-> "none", obj |-> <<>>]
    /\ result = <<>>
    /\ hpc = "idle"
    /\ tech_score = 0
    /\ exp_score = 0
    /\ complexity_score = 0
    /\ domain_score = 0
    /\ llm_adjustment = 0
    /\ base_score = FZero
    /\ final_score = FZero
    /\ variance = FZero
    /\ confidence = ""
    /\ conf_percent = 0
    /\ hresult = NoScoreResult
    /\ tpc = "idle"
    /\ candidate_text = <<>>
    /\ jd_text = <<>>
    /\ jd_skills = {}
    /\ candidate_skills = {}
    /\ tresult = [score |-> 0, matched |-> {}, missing |-> {}]
    /\ xpc = "idle"
    /\ resume_text = <<>>
    /\ exp_jd_text = <<>>
    /\ candidate_years = 0
    /\ required_years = 0
    /\ xresult = 0
    /\ ppc = "idle"
    /\ llm_configured = FALSE
    /\ req_no = 0
    /\ req = NoRequest
    /\ gh = NoGitHub
    /\ events = <<>>
    /\ scores = <<>>
    /\ ai_result = NoAnswer
    /\ passed_adjustment = NoAdjustment
    /\ scoring_result = NoScoreResult
    /\ http_status = 0
    /\ unhandled = ""
    /\ judge_calls = 0
    /\ candidates = <<>>
    /\ report_files = <<>>
    /\ prev = NoPrevious
    /\ dpc = "idle"
    /\ dom_jd_text = <<>>
    /\ dom_candidate_text = <<>>
    /\ top_jd_keywords = {}
    /\ dmatches = 0
    /\ dresult = 0
    /\ apc = "idle"
    /\ audit_scores = <<>>
    /\ audit_evidence = <<>>
    /\ audit_scores0 = <<>>
    /\ audit_evidence0 = <<>>
    /\ audit_trail = <<>>
    /\ audit_before = <<>>

\* if not repos: return 0
ReturnNoRepos ==
    /\ cpc = "entry"
    /\ repos = <<>>
    /\ cresult' = 0
    /\ cpc' = "returned"
    /\ UNCHANGED <<repos, ci, ctotal_score, valid_repos>>
    /\ UNCHANGED <<aggVars, scoreVars, techVars, expVars,
                 pipeVars, domainVars, auditVars>>

\* total_score = 0; valid_repos = 0; for repo in repos:
BeginRepoLoop ==
    /\ cpc = "entry"
    /\ repos # <<>>
    /\ ctotal_score' = 0
    /\ valid_repos' = 0
    /\ ci' = 1
    /\ cpc' = "loop"
    /\ UNCHANGED <<repos, cresult>>
    /\ UNCHANGED <<aggVars, scoreVars, techVars, expVars,
                 pipeVars, domainVars, auditVars>>

\* one pass through the loop body: the bonuses of repos[ci] are added up
\* and counted, or a comparison raises TypeError out of the function
ScoreRepo ==
    /\ cpc = "loop"
    /\ ci <= Len(repos)
    /\ IF RepoRaises(repos[ci])
       THEN /\ cpc' = "raised"
            /\ UNCHANGED <<ci, ctotal_score, valid_repos>>
       ELSE /\ ctotal_score' = ctotal_score + RepoScore(repos[ci])
            /\ valid_repos' = valid_repos + 1
            /\ ci' = ci + 1
            /\ cpc' = "loop"
    /\ UNCHANGED <<repos, cresult>>
    /\ UNCHANGED <<aggVars, scoreVars, techVars, expVars,
                 pipeVars, domainVars, auditVars>>

\* if valid_repos == 0: return 0; return min(100, int(total / valid))
ReturnAverage ==
    /\ cpc = "loop"
    /\ ci > Len(repos)
    /\ cresult' = ComplexityAverage(ctotal_score, valid_repos)
    /\ cpc' = "returned"
    /\ UNCHANGED <<repos, ci, ctotal_score, valid_repos>>
    /\ UNCHANGED <<aggVars, scoreVars, techVars, expVars,
                 pipeVars, domainVars, auditVars>>

NextComplexity ==
    \/ ReturnNoRepos
    \/ BeginRepoLoop
    \/ ScoreRepo
    \/ ReturnAverage

SpecComplexity == InitComplexity /\ [][NextComplexity]_vars

-----------------------------------------------------------------------------
(* Claims about calculate_complexity_score *)

\* the bonuses as the claim lists them
ListedBonuses(repo) ==
    LET size == Get(repo, "size", Num(0)).val
        stars == Get(repo, "stargazers_count", Num(0)).val
        wiki == Has(repo, "has_wiki") /\ repo["has_wiki"] = BoolVal(TRUE)
        pages == Has(repo, "has_pages") /\ repo["has_pages"] = BoolVal(TRUE)
        isFork == Has(repo, "fork") /\ repo["fork"] = BoolVal(TRUE)
        nonEmpty(k) == Has(repo, k) /\ repo[k].kind = "str" /\ repo[k].val > 0
    IN  (IF size > 10000 THEN 20 ELSE IF size > 1000 THEN 10 ELSE 0)
          + (IF stars > 100 THEN 20 ELSE IF stars > 10 THEN 10 ELSE 0)
          + (IF nonEmpty("language") THEN 10 ELSE 0)
          + (IF nonEmpty("description") THEN 10 ELSE 0)
          + (IF wiki \/ pages THEN 10 ELSE 0)
          + (IF isFork THEN 0 ELSE 30)

RECURSIVE SumOfBonuses(_, _)
SumOfBonuses(list, n) ==
    IF n = 0 THEN 0 ELSE SumOfBonuses(list, n - 1) + ListedBonuses(list[n])

\* C13: an empty list scores 0; any other list scores the average of the
\* per-repository scores over all the repositories supplied, as an integer
\* (the quotient truncated), and never more than 100.
C13_AverageOverAll ==
    (cpc = "returned")
        => IF repos = <<>> THEN cresult = 0
           ELSE /\ cresult = SumOfBonuses(repos, Len(repos)) \div Len(repos)
                /\ cresult <= 100

C13_Witness ==
    /\ cpc = "returned"
    /\ Len(repos) = 3
    /\ repos[1] = FullRepo
    /\ repos[2] = FullRepo
    /\ repos[3] = Put(FullRepo, "stargazers_count", Num(100))
    /\ ctotal_score = 290
    /\ cresult = 96

\* C14 as claimed, for calculate_complexity_score: whatever the repository
\* records hold, null fields included, the call raises nothing and returns
\* an integer in 0..100.
C14_ScorersAreTotal ==
    /\ cpc # "raised"
    /\ cpc = "returned" => cresult \in 0..100

-----------------------------------------------------------------------------
(* Claims about the base score of calculate_hybrid_score *)

-----------------------------------------------------------------------------
(* Claims about failure values handed to synthesize_reports *)

\* the reports of rs that are no failure value, in order
SucceededOf(rs) == SelectSeq(rs, LAMBDA r : ~IsError(r))

\* C18 as claimed: a failure value among the reports (an error and no
\* fit_score) is left out of the aggregation: the average is the one of
\* the other reports, the message counts and holds only the other
\* reports, and with at least one other report the call is not aborted
\* by it.
C18_FailureExcluded ==
    /\ (pc = "raised")
          => \E k \in 1..Len(reports0) :
                /\ ~IsError(reports0[k])
                /\ CarriesFitScore(reports0[k])
                /\ AddRaises(reports0[k])
    /\ (pc = "call" /\ SucceededOf(reports0) # <<>>)
          => /\ avg_fit_score =
                  Average(SumCarried(SucceededOf(reports0)),
                          CountCarried(SucceededOf(reports0)))
             /\ user_message.count = Len(SucceededOf(reports0))
             /\ \A k \in 1..Len(user_message.reports_str) :
                   ~IsError(user_message.reports_str[k].json)

-----------------------------------------------------------------------------
(* app/analysis/domain_analyzer.py *)

\* lines 33-40 of calculate_domain_relevance: the words of the job
\* description longer than 4 characters, the 20 most frequent of them
TopKeywords(jd) ==
    LET
        \* the characters \w matches in a lowered text
        WordChars == {LowerCase[k] : k \in 1..26} \cup Digits \cup {"_"}
        \* re.findall(r'\b\w+\b', text): the maximal runs of word characters, in
        \* the order they start
        WordRuns(text) ==
            LET starts == {k \in 1..Len(text) :
                             /\ text[k] \in WordChars
                             /\ (k = 1 \/ text[k - 1] \notin WordChars)}
                endOf(s) == CHOOSE e \in s..Len(text) :
                               /\ \A j \in s..e : text[j] \in WordChars
                               /\ (e = Len(text) \/ text[e + 1] \notin WordChars)
                nth(n) == CHOOSE s \in starts :
                             Cardinality({t \in starts : t < s}) = n - 1
            IN  [n \in 1..Cardinality(starts) |->
                    SubSeq(text, nth(n), endOf(nth(n)))]
        \* word_counts[ws[k]]
        WordCount(ws, k) == Cardinality({j \in 1..Len(ws) : ws[j] = ws[k]})
        \* sorted(word_counts, key=word_counts.get, reverse=True)[:20] as a set.
        \* The keys of word_counts are the words longer than 4 characters, in the
        \* order of their first occurrence; the sort is stable, so a key comes
        \* after the keys with a larger count and after the earlier keys with the
        \* same count.
        Top(ws) ==
            LET keys == {k \in 1..Len(ws) :
                           /\ Len(ws[k]) > 4
                           /\ \A j \in 1..(k - 1) : ws[j] # ws[k]}
                before(a) == {b \in keys :
                                \/ WordCount(ws, b) > WordCount(ws, a)
                                \/ WordCount(ws, b) = WordCount(ws, a) /\ b < a}
            IN  {ws[a] : a \in {x \in keys : Cardinality(before(x)) < 20}}
    IN  Top(WordRuns(Lower(jd)))

\* lines 45-49: the keywords found in the lowered candidate text
KeywordMatches(keywords, candidate) ==
    Cardinality({w \in keywords : Contains(Lower(candidate), w)})

\* the score of 20 keywords whatever their number, rounded both times
BoostedPercent_twenty(matches, n) ==
    LET score == PyRound(100 * matches, 20)
        boosted == PyRound(3 * score, 2)
    IN  IF boosted > 100 THEN 100 ELSE boosted

\* lines 52-54: score = int((matches / len(top_jd_keywords)) * 100), then
\* min(100, int(score * 1.5)); score * 1.5 is an exact double, and int() of
\* it the integer quotient of 3 * score by 2.  0 <= matches <= n, 0 < n <= 20
BoostedPercent(matches, n) ==
    LET score == IF matches = 0 THEN 0
                 ELSE IF matches = n THEN 100
                 ELSE PartialCredit(matches, n)
        boosted == (3 * score) \div 2
    IN  IF boosted > 100 THEN 100 ELSE boosted

-----------------------------------------------------------------------------
(* analyze_candidate, the handler of POST /projects/{project_id}/summarize *)
(* (main.py), with LLMClient.generate_summary_from_github_data as the      *)
(* judge it awaits. Requests are taken one after the other: the handler    *)
(* does not await between the judge's answer and the commit.               *)

\* lines 326-333: the username of a request, taken out of a profile URL
CleanUsername(username) ==
    LET
        \* str.strip()
        Strip(text) ==
            LET keep == {k \in 1..Len(text) : text[k] \notin Whitespace}
            IN  IF keep = {} THEN <<>>
                ELSE SubSeq(text,
                            CHOOSE k \in keep : \A j \in keep : k <= j,
                            CHOOSE k \in keep : \A j \in keep : j <= k)
        \* the index of the first occurrence of sep in text at or after from, or 0
        Find(text, sep, from) ==
            LET at == {k \in from..(Len(text) - Len(sep) + 1) :
                          \A j \in 1..Len(sep) : text[k + j - 1] = sep[j]}
            IN  IF at = {} THEN 0 ELSE CHOOSE k \in at : \A j \in at : k <= j
        \* text.split(sep)[0]
        SplitFirst(text, sep) ==
            LET k == Find(text, sep, 1)
            IN  IF k = 0 THEN text ELSE SubSeq(text, 1, k - 1)
        \* text.split(sep)[1] of a text that holds sep
        SplitSecond(text, sep) ==
            LET start == Find(text, sep, 1) + Len(sep)
                next == Find(text, sep, start)
            IN  IF next = 0 THEN SubSeq(text, start, Len(text))
                ELSE SubSeq(text, start, next - 1)
        GithubHost == <<"g", "i", "t", "h", "u", "b", ".", "c", "o", "m">>
    IN  LET cleaned_username == Strip(username)
            sep == GithubHost \o <<"/">>
        IN  IF Find(cleaned_username, GithubHost, 1) # 0
                 /\ Find(cleaned_username, sep, 1) # 0
            THEN SplitFirst(SplitFirst(SplitSecond(cleaned_username, sep),
                                       <<"/">>),
                            <<"?">>)
            ELSE cleaned_username

\* if not resume_text, line 346, with the test never taken
ResumeMissing_never(text) == FALSE

\* if not resume_text, line 346
ResumeMissing(text) == Len(text) = 0

\* the projects of the database and their job descriptions
Projects == {1, 2}

RECURSIVE TotalRepoScore(_, _)
TotalRepoScore(rs, k) ==
    IF k > Len(rs) THEN 0 ELSE RepoScore(rs[k]) + TotalRepoScore(rs, k + 1)

\* calculate_complexity_score(repos) of repositories whose size and stars
\* are numbers
ComplexityScore(rs) ==
    IF rs = <<>> THEN 0
    ELSE ComplexityAverage(TotalRepoScore(rs, 1), Len(rs))

\* generate_audit_trail with the repeated elements of every evidence list
\* dropped
AuditTrail_distinct(s, evidence) ==
    LET entry(v, pct) == ToString(v) \o "/100 (Weight: " \o ToString(pct) \o "%)"
        distinct(l) ==
            SelectSeq([k \in 1..Len(l) |->
                          IF \E j \in 1..(k - 1) : l[j] = l[k] THEN "" ELSE l[k]],
                      LAMBDA x : x # "")
    IN  [math_breakdown |->
            [technical_skills |-> entry(s.tech, 40),
             experience_level |-> entry(s.exp, 25),
             project_complexity |-> entry(s.comp, 20),
             domain_relevance |-> entry(s.dom, 15)],
         evidence_log |-> [k \in DOMAIN evidence |-> distinct(evidence[k])]]

\* generate_audit_trail(scores, evidence): every score rendered by the
\* f-string of its line, and the evidence object itself
AuditTrail(s, evidence) ==
    LET entry(v, pct) == ToString(v) \o "/100 (Weight: " \o ToString(pct) \o "%)"
    IN  [math_breakdown |->
            [technical_skills |-> entry(s.tech, 40),
             experience_level |-> entry(s.exp, 25),
             project_complexity |-> entry(s.comp, 20),
             domain_relevance |-> entry(s.dom, 15)],
         evidence_log |-> evidence]

\* lines 367-376: the four quantitative scores
QuantitativeScores(text, jd, rs) ==
    LET
        ListedRepoJson ==
            <<"[", "{", "\"", "n", "a", "m", "e", "\"", ":", " ", "\"", "h", "e",
              "l", "l", "o", "\"", ",", " ", "\"", "l", "a", "n", "g", "u", "a",
              "g", "e", "\"", ":", " ", "\"", "P", "y", "t", "h", "o", "n", "\"",
              ",", " ", "\"", "s", "t", "a", "r", "g", "a", "z", "e", "r", "s", "_",
              "c", "o", "u", "n", "t", "\"", ":", " ", "1", "0", "1", "}", "]">>
        \* json.dumps(repos)
        DumpsRepos(l) == IF l = <<>> THEN <<"[", "]">> ELSE ListedRepoJson
        \* calculate_technical_match(candidate_text, jd_text)[0]
        TechnicalMatch(t, d) ==
            LET jds == ExtractSkills(d)
                matches == jds \cap ExtractSkills(t)
            IN  IF jds = {} THEN 0
                ELSE MatchPercent(Cardinality(matches), Cardinality(jds))
        \* calculate_experience_score(resume_text, jd_text)
        ExperienceScore(t, d) ==
            LET c == ExtractYears(t)
                r == RequiredOrDefault(ExtractYears(d))
            IN  IF c = 0 THEN 20
                ELSE IF c >= r THEN 100
                ELSE PartialCredit(c, r)
        \* calculate_domain_relevance(jd_text, candidate_text)
        DomainRelevance(d, t) ==
            IF Len(d) = 0 \/ Len(t) = 0 THEN 0
            ELSE IF TopKeywords(d) = {} THEN 0
            ELSE BoostedPercent(KeywordMatches(TopKeywords(d), t),
                                Cardinality(TopKeywords(d)))
    IN  [tech |-> TechnicalMatch(text \o <<" ">> \o DumpsRepos(rs), jd),
         exp |-> ExperienceScore(text, jd),
         comp |-> ComplexityScore(rs),
         dom |-> DomainRelevance(jd, text)]

\* generate_summary_from_github_data reaches generate_content_async, with
\* the judge never reached
JudgeInvoked_never(configured) == FALSE

\* generate_summary_from_github_data reaches generate_content_async: line 41
\* returns before it when self.model is not set
JudgeInvoked(configured) == configured

\* line 402 with no answer taken for an error
HasError_never(answer) == FALSE

\* "error" in ai_result, line 402
HasError(answer) == answer.kind = "object" /\ Has(answer.obj, "error")

\* line 357 with every profile taken for found
ProfileMissing_never(profile) == FALSE

\* line 357: `if not profile`
ProfileMissing(profile) == ~profile

InitPipeline ==
    /\ ppc = "idle"
    /\ llm_configured \in BOOLEAN
    /\ req_no = 0
    /\ req = NoRequest
    /\ gh = NoGitHub
    /\ events = <<>>
    /\ scores = <<>>
    /\ ai_result = NoAnswer
    /\ passed_adjustment = NoAdjustment
    /\ scoring_result = NoScoreResult
    /\ http_status = 0
    /\ unhandled = ""
    /\ judge_calls = 0
    /\ candidates = <<>>
    /\ report_files = <<>>
    /\ prev = NoPrevious
    /\ pc = "idle"
    /\ self_model = FALSE
    /\ reports = <<>>
    /\ reports0 = <<>>
    /\ i = 0
    /\ total_score = 0
    /\ valid_reports_count = 0
    /\ avg_fit_score = 0
    /\ reports_str_list = <<>>
    /\ user_message = [count |-> 0, reports_str |-> <<>>, use_fit_score |-> 0]
    /\ calls = 0
    /\ response = [kind |-> "none", obj |-> <<>>]
    /\ result = <<>>
    /\ hpc = "idle"
    /\ tech_score = 0
    /\ exp_score = 0
    /\ complexity_score = 0
    /\ domain_score = 0
    /\ llm_adjustment = 0
    /\ base_score = FZero
    /\ final_score = FZero
    /\ variance = FZero
    /\ confidence = ""
    /\ conf_percent = 0
    /\ hresult = NoScoreResult
    /\ tpc = "idle"
    /\ candidate_text = <<>>
    /\ jd_text = <<>>
    /\ jd_skills = {}
    /\ candidate_skills = {}
    /\ tresult = [score |-> 0, matched |-> {}, missing |-> {}]
    /\ xpc = "idle"
    /\ resume_text = <<>>
    /\ exp_jd_text = <<>>
    /\ candidate_years = 0
    /\ required_years = 0
    /\ xresult = 0
    /\ cpc = "idle"
    /\ repos = <<>>
    /\ ci = 0
    /\ ctotal_score = 0
    /\ valid_repos = 0
    /\ cresult = 0
    /\ dpc = "idle"
    /\ dom_jd_text = <<>>
    /\ dom_candidate_text = <<>>
    /\ top_jd_keywords = {}
    /\ dmatches = 0
    /\ dresult = 0
    /\ apc = "idle"
    /\ audit_scores = <<>>
    /\ audit_evidence = <<>>
    /\ audit_scores0 = <<>>
    /\ audit_evidence0 = <<>>
    /\ audit_trail = <<>>
    /\ audit_before = <<>>

\* a request arrives, the first or after the one before has been answered
StartRequest ==
    LET
        \* what a request carries: the username form field, the project id of the
        \* path, and the text parse_pdf_resume gives for the uploaded file
        UsernameChoices ==
            { <<>>,
              <<"o", "c", "t", "o", "c", "a", "t", " ">>,
              <<"g", "i", "t", "h", "u", "b", ".", "c", "o", "m", "/",
                "o", "c", "t", "o", "c", "a", "t", "/">>,
              <<"g", "i", "t", "h", "u", "b", ".", "c", "o", "m", "/">> }
        ProjectIdChoices == {1, 2, 3}
        ResumeChoices ==
            { <<>>,
              <<"5", " ", "y", "e", "a", "r", "s", " ", "P", "y", "t", "h", "o", "n">> }
    IN  /\ ppc \in {"idle", "done"}
        /\ req_no < MaxRequests
        /\ req_no' = req_no + 1
        /\ \E u \in UsernameChoices, p \in ProjectIdChoices, t \in ResumeChoices :
              req' = [username |-> u, project_id |-> p, resume_text |-> t]
        /\ prev' = [req |-> req, gh |-> gh, http_status |-> http_status,
                    candidates |-> candidates]
        /\ gh' = NoGitHub
        /\ events' = <<>>
        /\ scores' = <<>>
        /\ ai_result' = NoAnswer
        /\ passed_adjustment' = NoAdjustment
        /\ scoring_result' = NoScoreResult
        /\ http_status' = 0
        /\ unhandled' = ""
        /\ ppc' = "validate"
        /\ UNCHANGED <<llm_configured, judge_calls, candidates, report_files>>
        /\ UNCHANGED <<aggVars, scoreVars, techVars, expVars,
                 cxVars, domainVars, auditVars>>

\* lines 334-335: raise HTTPException(400, "GitHub username is required.")
RejectUsername ==
    /\ ppc = "validate"
    /\ CleanUsername(req.username) = <<>>
    /\ http_status' = 400
    /\ ppc' = "done"
    /\ UNCHANGED <<llm_configured, req_no, req, gh, events, scores,
                   ai_result, passed_adjustment, scoring_result, unhandled,
                   judge_calls, candidates, report_files, prev>>
    /\ UNCHANGED <<aggVars, scoreVars, techVars, expVars,
                 cxVars, domainVars, auditVars>>

\* lines 339-341: raise HTTPException(404, "Project not found")
RejectProject ==
    /\ ppc = "validate"
    /\ CleanUsername(req.username) # <<>>
    /\ req.project_id \notin Projects
    /\ http_status' = 404
    /\ ppc' = "done"
    /\ UNCHANGED <<llm_configured, req_no, req, gh, events, scores,
                   ai_result, passed_adjustment, scoring_result, unhandled,
                   judge_calls, candidates, report_files, prev>>
    /\ UNCHANGED <<aggVars, scoreVars, techVars, expVars,
                 cxVars, domainVars, auditVars>>

\* lines 344-347: raise HTTPException(400, "Empty/Invalid Resume PDF")
RejectResume ==
    /\ ppc = "validate"
    /\ CleanUsername(req.username) # <<>>
    /\ req.project_id \in Projects
    /\ ResumeMissing(req.resume_text)
    /\ http_status' = 400
    /\ ppc' = "done"
    /\ UNCHANGED <<llm_configured, req_no, req, gh, events, scores,
                   ai_result, passed_adjustment, scoring_result, unhandled,
                   judge_calls, candidates, report_files, prev>>
    /\ UNCHANGED <<aggVars, scoreVars, techVars, expVars,
                 cxVars, domainVars, auditVars>>

\* lines 354-357: get_user_profile and get_user_repos are gathered; no
\* profile raises HTTPException(404, "GitHub user not found")
FetchGitHub ==
    LET
        \* a repository as get_user_repos returns it, and json.dumps of the list
        \* that holds it
        ListedRepo ==
            [name |-> StrOfLen(5), language |-> StrOfLen(6),
             stargazers_count |-> Num(101)]
        RepoListChoices == { <<>>, <<ListedRepo>> }
    IN  /\ ppc = "validate"
        /\ CleanUsername(req.username) # <<>>
        /\ req.project_id \in Projects
        /\ ~ResumeMissing(req.resume_text)
        /\ events' = events \o <<"get_user_profile", "get_user_repos">>
        /\ \E found \in BOOLEAN, rs \in RepoListChoices :
              /\ gh' = [profile |-> found, repos |-> rs]
              /\ IF ~ProfileMissing(found)
                 THEN /\ ppc' = "readmes"
                      /\ UNCHANGED http_status
                 ELSE /\ http_status' = 404
                      /\ ppc' = "done"
        /\ UNCHANGED <<llm_configured, req_no, req, scores, ai_result,
                       passed_adjustment, scoring_result, unhandled,
                       judge_calls, candidates, report_files, prev>>
        /\ UNCHANGED <<aggVars, scoreVars, techVars, expVars,
                 cxVars, domainVars, auditVars>>

\* lines 360-363: one get_readme_content for each of the top repositories
FetchReadmes ==
    LET
        \* sorted(repos, key=lambda r: r.get('stargazers_count', 0),
        \*        reverse=True)[:5]: the sort is stable
        TopRepos(l) ==
            LET key(q) == Get(l[q], "stargazers_count", Num(0)).val
                before(j, q) == key(j) > key(q) \/ (key(j) = key(q) /\ j < q)
                rank(q) == Cardinality({j \in 1..Len(l) : before(j, q)}) + 1
                n == IF Len(l) < 5 THEN Len(l) ELSE 5
            IN  [p \in 1..n |-> l[CHOOSE q \in 1..Len(l) : rank(q) = p]]
    IN  /\ ppc = "readmes"
        /\ events' = events \o [k \in 1..Len(TopRepos(gh.repos)) |->
                                   "get_readme_content"]
        /\ ppc' = "score"
        /\ UNCHANGED <<llm_configured, req_no, req, gh, scores, ai_result,
                       passed_adjustment, scoring_result, http_status,
                       unhandled, judge_calls, candidates, report_files, prev>>
        /\ UNCHANGED <<aggVars, scoreVars, techVars, expVars,
                 cxVars, domainVars, auditVars>>

\* lines 367-388
ComputeScores ==
    LET
        JobDescription(project_id) ==
            IF project_id = 1
            THEN <<"P", "y", "t", "h", "o", "n", " ", "K", "u", "b", "e", "r", "n",
                   "e", "t", "e", "s", " ", "3", "+", " ", "Y", "e", "a", "r", "s">>
            ELSE <<"g", "o", "l", "a", "n", "g">>
    IN  /\ ppc = "score"
        /\ scores' = QuantitativeScores(req.resume_text,
                                        JobDescription(req.project_id),
                                        gh.repos)
        /\ ppc' = "judge"
        /\ UNCHANGED <<llm_configured, req_no, req, gh, events, ai_result,
                       passed_adjustment, scoring_result, http_status,
                       unhandled, judge_calls, candidates, report_files, prev>>
        /\ UNCHANGED <<aggVars, scoreVars, techVars, expVars,
                 cxVars, domainVars, auditVars>>

\* lines 392-400 and generate_summary_from_github_data
CallJudge ==
    LET
        \* line 41
        JudgeNotConfigured == [kind |-> "object", obj |-> [error |-> StrOfLen(29)]]
        \* lines 67-69: the call or json.loads raised
        JudgeFailed == [kind |-> "object", obj |-> [error |-> StrOfLen(19)]]
        \* json.loads(response.text): an object with or without an llm_adjustment,
        \* which is whatever the model wrote there, or JSON that is no object
        \* and with or without a breakdown of evidence lists
        JudgeAnswers ==
            { [kind |-> "object",
               obj |-> [summary |-> StrOfLen(7), llm_adjustment |-> a]] :
                  a \in {Num(55), StrVal} }
              \cup { [kind |-> "object",
                      obj |-> [summary |-> StrOfLen(7),
                               llm_adjustment |-> Num(5),
                               adjustment_reasoning |-> StrOfLen(12),
                               breakdown |->
                                   [strong_evidence |-> <<StrOfLen(16)>>,
                                    red_flags |-> <<StrOfLen(8), StrOfLen(8)>>]]],
                     [kind |-> "object", obj |-> [summary |-> StrOfLen(7)]],
                     [kind |-> "array", obj |-> <<>>] }
    IN  /\ ppc = "judge"
        /\ events' = Append(events, "generate_summary_from_github_data")
        /\ IF JudgeInvoked(llm_configured)
           THEN judge_calls' = judge_calls + 1
           ELSE UNCHANGED judge_calls
        /\ IF llm_configured
           THEN ai_result' \in JudgeAnswers \cup {JudgeFailed}
           ELSE ai_result' = JudgeNotConfigured
        /\ ppc' = "judged"
        /\ UNCHANGED <<llm_configured, req_no, req, gh, scores,
                       passed_adjustment, scoring_result, http_status,
                       unhandled, candidates, report_files, prev>>
        /\ UNCHANGED <<aggVars, scoreVars, techVars, expVars,
                 cxVars, domainVars, auditVars>>

\* line 402: raise HTTPException(500, ai_result["error"])
RejectJudgeError ==
    /\ ppc = "judged"
    /\ HasError(ai_result)
    /\ http_status' = 500
    /\ ppc' = "done"
    /\ UNCHANGED <<llm_configured, req_no, req, gh, events, scores,
                   ai_result, passed_adjustment, scoring_result, unhandled,
                   judge_calls, candidates, report_files, prev>>
    /\ UNCHANGED <<aggVars, scoreVars, techVars, expVars,
                 cxVars, domainVars, auditVars>>

\* lines 405-409: ai_result.get of a list raises AttributeError; the sum
\* base_score + llm_adjustment of line 35 raises TypeError unless the
\* adjustment is a number
ComputeHybrid ==
    LET
        \* calculate_hybrid_score(tech, exp, comp, dom, adjustment), adjustment an
        \* int
        HybridScore(s, adjustment) ==
            LET base == WeightedSum(s.tech, s.exp, s.comp, s.dom)
                final == Clamp(FAdd(base, FromInt(adjustment)))
                v == Variance(final, base)
            IN  [base_score |-> FTrunc(base),
                 final_score |-> FTrunc(final),
                 confidence_level |-> ConfidenceLevel(v),
                 confidence_percentage |-> ConfidencePercent(v)]
    IN  /\ ppc = "judged"
        /\ ~HasError(ai_result)
        /\ IF ai_result.kind # "object"
           THEN /\ unhandled' = "AttributeError"
                /\ http_status' = 500
                /\ ppc' = "done"
                /\ UNCHANGED <<passed_adjustment, scoring_result>>
           ELSE LET adjustment == Get(ai_result.obj, "llm_adjustment", Num(0))
                IN  /\ passed_adjustment' = adjustment
                    /\ IF IsNumber(adjustment)
                       THEN /\ scoring_result' = HybridScore(scores, adjustment.val)
                            /\ ppc' = "save"
                            /\ UNCHANGED <<http_status, unhandled>>
                       ELSE /\ unhandled' = "TypeError"
                            /\ http_status' = 500
                            /\ ppc' = "done"
                            /\ UNCHANGED scoring_result
        /\ UNCHANGED <<llm_configured, req_no, req, gh, events, scores,
                       ai_result, judge_calls, candidates, report_files, prev>>
        /\ UNCHANGED <<aggVars, scoreVars, techVars, expVars,
                 cxVars, domainVars, auditVars>>

\* line 419 with no row ever found
ExistingRows_none(rows, project_id, username) == {}

\* line 419: select(Candidate).where(project_id == ..., github_username == ...)
ExistingRows(rows, project_id, username) ==
    {k \in 1..Len(rows) : /\ rows[k].project_id = project_id
                          /\ rows[k].github_username = username}

\* lines 419-478: report.json is written, then the row of this project and
\* username is updated, or a row is inserted under a fresh unique_id, a
\* column declared unique
SaveCandidate ==
    LET
        \* secrets.token_hex(3)
        TokenChoices == {"a1b2c3", "d4e5f6"}
        \* candidate_data, lines 424-449, with report_file_path as set on line 464
        \* and of the dict written to report.json, lines 452-455
        CandidateData(username, project_id, s, adjustment, scoring, answer) ==
            LET evidence == Get(answer, "breakdown", EmptyDict)
            IN
            [name |-> username,
             github_username |-> username,
             project_id |-> project_id,
             report_file_path |-> <<username, project_id>>,
             strong_evidence |-> Get(evidence, "strong_evidence", <<>>),
             weak_evidence |-> Get(evidence, "weak_evidence", <<>>),
             missing_skills |-> Get(evidence, "missing_skills", <<>>),
             red_flags |-> Get(evidence, "red_flags", <<>>),
             audit_trail |->
                 AuditTrail(s, [adjustment |-> adjustment,
                                reason |-> Get(answer, "adjustment_reasoning",
                                               NullVal)]),
             technical_skills_score |-> s.tech,
             experience_level_score |-> s.exp,
             project_complexity_score |-> s.comp,
             domain_relevance_score |-> s.dom,
             base_score |-> scoring.base_score,
             llm_adjustment |-> adjustment,
             final_score |-> scoring.final_score,
             confidence_level |-> scoring.confidence_level,
             confidence_percentage |-> scoring.confidence_percentage]
        \* a Candidate row: the primary key, unique_id, and the fields of
        \* candidate_data
        Row(id, unique_id, data) ==
            [f \in {"id", "unique_id"} \cup DOMAIN data |->
                IF f = "id" THEN id
                ELSE IF f = "unique_id" THEN unique_id
                ELSE data[f]]
        \* full_report: candidate_data while report_file_path is "placeholder",
        \* with the summary and the interview questions of the answer
        FullReport(data, answer) ==
            [f \in DOMAIN data \cup {"summary", "interview_questions"} |->
                IF f = "report_file_path" THEN "placeholder"
                ELSE IF f \in {"summary", "interview_questions"}
                THEN Get(answer, f, NullVal)
                ELSE data[f]]
    IN  /\ ppc = "save"
        /\ LET username == CleanUsername(req.username)
               data == CandidateData(username, req.project_id, scores,
                                     passed_adjustment.val, scoring_result,
                                     ai_result.obj)
               path == <<username, req.project_id>>
               existing == ExistingRows(candidates, req.project_id, username)
           IN  /\ report_files' =
                     [f \in DOMAIN report_files \cup {path} |->
                         IF f = path THEN FullReport(data, ai_result.obj)
                         ELSE report_files[f]]
               /\ IF existing # {}
                  THEN LET k == CHOOSE k \in existing : \A j \in existing : k <= j
                       IN  /\ candidates' =
                                 [candidates EXCEPT ![k] =
                                     Row(candidates[k].id,
                                         candidates[k].unique_id, data)]
                           /\ http_status' = 200
                           /\ UNCHANGED unhandled
                  ELSE \E unique_id \in TokenChoices :
                          IF \E k \in 1..Len(candidates) :
                                candidates[k].unique_id = unique_id
                          THEN /\ unhandled' = "IntegrityError"
                               /\ http_status' = 500
                               /\ UNCHANGED candidates
                          ELSE /\ candidates' =
                                     Append(candidates,
                                            Row(Len(candidates) + 1,
                                                unique_id, data))
                               /\ http_status' = 200
                               /\ UNCHANGED unhandled
        /\ ppc' = "done"
        /\ UNCHANGED <<llm_configured, req_no, req, gh, events, scores,
                       ai_result, passed_adjustment, scoring_result,
                       judge_calls, prev>>
        /\ UNCHANGED <<aggVars, scoreVars, techVars, expVars,
                 cxVars, domainVars, auditVars>>

NextPipeline ==
    \/ StartRequest
    \/ RejectUsername
    \/ RejectProject
    \/ RejectResume
    \/ FetchGitHub
    \/ FetchReadmes
    \/ ComputeScores
    \/ CallJudge
    \/ RejectJudgeError
    \/ ComputeHybrid
    \/ SaveCandidate

SpecPipeline == InitPipeline /\ [][NextPipeline]_vars

-----------------------------------------------------------------------------
(* Claims about analyze_candidate                                           *)

C16_EmptyResumeIsBaseline ==
    (/\ ppc = "done"
     /\ CleanUsername(req.username) # <<>>
     /\ req.project_id \in Projects
     /\ req.resume_text = <<>>)
        => (http_status # 400 /\ scores # <<>>)

\* C16 as amended: an empty resume text ends the request with status 400
\* before GitHub is asked, a score is computed or the judge is called.
C16_EmptyResumeRejected ==
    (/\ ppc = "done"
     /\ CleanUsername(req.username) # <<>>
     /\ req.project_id \in Projects
     /\ req.resume_text = <<>>)
        => /\ http_status = 400
           /\ events = <<>>
           /\ scores = <<>>
           /\ ai_result = NoAnswer
           /\ passed_adjustment = NoAdjustment

C16_Witness ==
    /\ ppc = "done"
    /\ CleanUsername(req.username) # <<>>
    /\ req.project_id \in Projects
    /\ req.resume_text = <<>>
    /\ http_status = 400
    /\ req_no = 2
    /\ prev.http_status = 200

\* C17: the adjustment analyze_candidate passes to calculate_hybrid_score
\* is an integer from -20 to 20, whatever the judge returned as
\* llm_adjustment.
C17_AdjustmentIsBounded ==
    passed_adjustment # NoAdjustment
        => /\ IsNumber(passed_adjustment)
           /\ passed_adjustment.val >= -20
           /\ passed_adjustment.val <= 20

-----------------------------------------------------------------------------
(* Claims about extract_years_of_experience and extract_skills             *)

C22_PhrasesFromLoweredText ==
    LET phrases ==
            {<<"m", "a", "c", "h", "i", "n", "e", " ",
               "l", "e", "a", "r", "n", "i", "n", "g">>,
             <<"d", "e", "e", "p", " ", "l", "e", "a", "r", "n", "i", "n", "g">>,
             <<"c", "i", "/", "c", "d">>,
             <<"r", "e", "s", "t", " ", "a", "p", "i">>}
    IN  tpc # "entry"
            => /\ \A p \in phrases :
                     Contains(Lower(jd_text), p) => p \in jd_skills
               /\ jd_skills \subseteq COMMON_SKILLS
               /\ jd_text = <<>> => jd_skills = {}


\* C25: for a fixed job description calculate_experience_score is
\* non-decreasing in the years detected in the resume: the returned score is
\* never below the score the same job description gives to fewer detected
\* years, in particular never below the score of a resume with none.
C25_ScoreNonDecreasingInYears ==
    LET scoreOf(c) ==
            IF c = 0 THEN 20
            ELSE IF c >= required_years THEN 100
            ELSE PartialCredit(c, required_years)
    IN  xpc = "returned"
            => \A fewer \in 0..candidate_years : scoreOf(fewer) <= xresult


\* C26: synthesize_reports changes its input reports only by removing their
\* model_source key: after an early return (aggregator not configured, or
\* empty list) the caller's reports are as they were, and after any other
\* call, returned or failed, no input report carries model_source and every
\* other field is as it was.
C26_OnlyModelSourceRemoved ==
    LET early == NotConfigured(self_model) \/ NoReports(reports0)
        over == pc \in {"returned", "raised"}
    IN  /\ Len(reports) = Len(reports0)
        /\ \A k \in 1..Len(reports) :
              reports[k] \in {reports0[k], Without(reports0[k], "model_source")}
        /\ over /\ early => reports = reports0
        /\ over /\ ~early
              => \A k \in 1..Len(reports) :
                    /\ ~Has(reports[k], "model_source")
                    /\ reports[k] = Without(reports0[k], "model_source")

\* C27: the consensus fit_score lies between the smallest and the largest
\* fit_score of the input reports that carry one, and is 0 when no input
\* report carries a fit_score.
C27_ConsensusWithinInputs ==
    LET contributing ==
            {reports0[k]["fit_score"].val :
                k \in {j \in 1..Len(reports0) : Has(reports0[j], "fit_score")}}
    IN  pc = "returned" /\ Has(result, "fit_score")
            => /\ IsNumber(result["fit_score"])
               /\ contributing = {} => result["fit_score"].val = 0
               /\ contributing # {}
                     => /\ \E low \in contributing :
                              low <= result["fit_score"].val
                        /\ \E high \in contributing :
                              result["fit_score"].val <= high

\* reports scored 60 and 85 give the consensus 72, and a call whose reports
\* carry no fit_score has returned a consensus as well
C27_Witness ==
    /\ pc = "returned"
    /\ Len(reports0) = 2
    /\ Has(reports0[1], "fit_score") /\ reports0[1]["fit_score"] = Num(60)
    /\ Has(reports0[2], "fit_score") /\ reports0[2]["fit_score"] = Num(85)
    /\ Has(result, "fit_score") /\ result["fit_score"] = Num(72)

-----------------------------------------------------------------------------
(* Claims about the error paths and the order of calls of analyze_candidate *)

\* C28: when the judge backend returns an error value, analyze_candidate
\* ends in an error and leaves the persistent state as it was: the step
\* that follows the answer ends the request with status 500, and no step
\* taken while the answer is an error value, or before there is an answer,
\* changes a Candidate row or a report.json file.
C28_JudgeErrorChangesNothing ==
    [][/\ (ppc = "judged" /\ ai_result.kind = "object"
                          /\ Has(ai_result.obj, "error"))
             => /\ ppc' = "done"
                /\ http_status' = 500
                /\ candidates' = candidates
                /\ report_files' = report_files
       /\ (candidates' # candidates \/ report_files' # report_files)
             => /\ ppc = "save"
                /\ ai_result # NoAnswer
                /\ ~(ai_result.kind = "object" /\ Has(ai_result.obj, "error"))]_vars

\* a second request, after one that stored a row, has ended on the error
\* value of a configured judge
C28_Witness ==
    /\ ppc = "done"
    /\ req_no = 2
    /\ ai_result.kind = "object" /\ Has(ai_result.obj, "error")
    /\ llm_configured
    /\ http_status = 500
    /\ Len(candidates) = 1
    /\ prev.http_status = 200

\* C30: no collaborator is called before the request is validated: an
\* empty username, an unknown project or an empty resume ends the request
\* before any GitHub fetch; the judge is not invoked for a request whose
\* GitHub profile is not found, and is invoked only after the four
\* quantitative scores are computed.
C30_ValidationBeforeCollaborators ==
    LET judge == "generate_summary_from_github_data"
        called(name) == \E k \in 1..Len(events) : events[k] = name
        invalid == \/ CleanUsername(req.username) = <<>>
                   \/ req.project_id \notin Projects
                   \/ Len(req.resume_text) = 0
    IN  /\ ppc = "validate" => events = <<>>
        /\ req_no > 0 /\ invalid => events = <<>>
        /\ ppc = "done" /\ invalid => http_status \in {400, 404}
        /\ called("get_user_profile") /\ ~gh.profile
              => /\ ~called(judge)
                 /\ ppc = "done" /\ http_status = 404
        /\ called(judge)
              => /\ DOMAIN scores = {"tech", "exp", "comp", "dom"}
                 /\ events[Len(events)] = judge
                 /\ called("get_user_profile") /\ called("get_user_repos")
        /\ ppc \in {"validate", "readmes", "score", "judge"} => ~called(judge)

\* a request has ended on a profile that was not found, after an earlier
\* request for which the judge was invoked
C30_Witness ==
    /\ ppc = "done"
    /\ req_no = 2
    /\ events = <<"get_user_profile", "get_user_repos">>
    /\ ~gh.profile
    /\ http_status = 404
    /\ judge_calls = 1

-----------------------------------------------------------------------------
(* calculate_domain_relevance *)

InitDomain ==
    LET
        \* a job description of 21 distinct words of 6 characters, the last of
        \* them written twice
        Topic(k) == <<"t", "o", "p", "i", "c", LowerCase[k]>>
        ManyTopics ==
            LET joined[k \in 0..21] ==
                    IF k = 0 THEN <<>> ELSE joined[k - 1] \o Topic(k) \o <<" ">>
            IN  joined[21] \o Topic(21)
        \* candidate texts that name some of these words
        TopicTexts == {Topic(20) \o <<" ">> \o Topic(21),
                       Topic(1) \o <<",">> \o Topic(2) \o Topic(3)}
    IN  /\ dpc = "entry"
        /\ dom_jd_text \in TextsUpTo(MaxFragments) \cup {ManyTopics}
        /\ dom_candidate_text \in TextsUpTo(MaxFragments - 1) \cup TopicTexts
        /\ top_jd_keywords = {}
        /\ dmatches = 0
        /\ dresult = 0
    /\ pc = "idle"
    /\ self_model = FALSE
    /\ reports = <<>>
    /\ reports0 = <<>>
    /\ i = 0
    /\ total_score = 0
    /\ valid_reports_count = 0
    /\ avg_fit_score = 0
    /\ reports_str_list = <<>>
    /\ user_message = [count |-> 0, reports_str |-> <<>>, use_fit_score |-> 0]
    /\ calls = 0
    /\ response = [kind |-> "none", obj |-> <<>>]
    /\ result = <<>>
    /\ hpc = "idle"
    /\ tech_score = 0
    /\ exp_score = 0
    /\ complexity_score = 0
    /\ domain_score = 0
    /\ llm_adjustment = 0
    /\ base_score = FZero
    /\ final_score = FZero
    /\ variance = FZero
    /\ confidence = ""
    /\ conf_percent = 0
    /\ hresult = NoScoreResult
    /\ tpc = "idle"
    /\ candidate_text = <<>>
    /\ jd_text = <<>>
    /\ jd_skills = {}
    /\ candidate_skills = {}
    /\ tresult = [score |-> 0, matched |-> {}, missing |-> {}]
    /\ xpc = "idle"
    /\ resume_text = <<>>
    /\ exp_jd_text = <<>>
    /\ candidate_years = 0
    /\ required_years = 0
    /\ xresult = 0
    /\ cpc = "idle"
    /\ repos = <<>>
    /\ ci = 0
    /\ ctotal_score = 0
    /\ valid_repos = 0
    /\ cresult = 0
    /\ ppc = "idle"
    /\ llm_configured = FALSE
    /\ req_no = 0
    /\ req = NoRequest
    /\ gh = NoGitHub
    /\ events = <<>>
    /\ scores = <<>>
    /\ ai_result = NoAnswer
    /\ passed_adjustment = NoAdjustment
    /\ scoring_result = NoScoreResult
    /\ http_status = 0
    /\ unhandled = ""
    /\ judge_calls = 0
    /\ candidates = <<>>
    /\ report_files = <<>>
    /\ prev = NoPrevious
    /\ apc = "idle"
    /\ audit_scores = <<>>
    /\ audit_evidence = <<>>
    /\ audit_scores0 = <<>>
    /\ audit_evidence0 = <<>>
    /\ audit_trail = <<>>
    /\ audit_before = <<>>

\* lines 28-29: if not jd_text or not candidate_text: return 0
ReturnNoText ==
    /\ dpc = "entry"
    /\ (Len(dom_jd_text) = 0 \/ Len(dom_candidate_text) = 0)
    /\ dresult' = 0
    /\ dpc' = "returned"
    /\ UNCHANGED <<dom_jd_text, dom_candidate_text, top_jd_keywords, dmatches>>
    /\ UNCHANGED <<aggVars, scoreVars, techVars, expVars,
                 cxVars, pipeVars, auditVars>>

\* lines 33-40: top_jd_keywords
SelectKeywords ==
    /\ dpc = "entry"
    /\ ~(Len(dom_jd_text) = 0 \/ Len(dom_candidate_text) = 0)
    /\ top_jd_keywords' = TopKeywords(dom_jd_text)
    /\ dpc' = "keywords"
    /\ UNCHANGED <<dom_jd_text, dom_candidate_text, dmatches, dresult>>
    /\ UNCHANGED <<aggVars, scoreVars, techVars, expVars,
                 cxVars, pipeVars, auditVars>>

\* lines 42-43: if not top_jd_keywords: return 0
ReturnNoKeywords ==
    /\ dpc = "keywords"
    /\ top_jd_keywords = {}
    /\ dresult' = 0
    /\ dpc' = "returned"
    /\ UNCHANGED <<dom_jd_text, dom_candidate_text, top_jd_keywords, dmatches>>
    /\ UNCHANGED <<aggVars, scoreVars, techVars, expVars,
                 cxVars, pipeVars, auditVars>>

\* lines 45-56: the keywords are counted and the boosted score is returned
ReturnRelevance ==
    /\ dpc = "keywords"
    /\ top_jd_keywords # {}
    /\ dmatches' = KeywordMatches(top_jd_keywords, dom_candidate_text)
    /\ dresult' = BoostedPercent(dmatches', Cardinality(top_jd_keywords))
    /\ dpc' = "returned"
    /\ UNCHANGED <<dom_jd_text, dom_candidate_text, top_jd_keywords>>
    /\ UNCHANGED <<aggVars, scoreVars, techVars, expVars,
                 cxVars, pipeVars, auditVars>>

NextDomain ==
    \/ ReturnNoText
    \/ SelectKeywords
    \/ ReturnNoKeywords
    \/ ReturnRelevance

SpecDomain == InitDomain /\ [][NextDomain]_vars

-----------------------------------------------------------------------------
(* Claims about calculate_domain_relevance *)

-----------------------------------------------------------------------------
(* generate_audit_trail *)

InitAudit ==
    LET
        \* the scores handed over, and evidence lists of at most MaxEvidence
        \* strings, repeated ones included
        ScoreChoices == {0, 7, 100}
        Strings == {"Built a compiler", "No tests"}
        Lists == UNION {[1..n -> Strings] : n \in 0..MaxEvidence}
    IN  /\ apc = "entry"
        /\ audit_scores \in [tech : ScoreChoices, exp : {20, 100},
                             comp : {60}, dom : {0, 99}]
        /\ audit_evidence \in [strong_evidence : Lists, red_flags : Lists]
        /\ audit_scores0 = audit_scores
        /\ audit_evidence0 = audit_evidence
        /\ audit_trail = <<>>
        /\ audit_before = <<>>
    /\ pc = "idle"
    /\ self_model = FALSE
    /\ reports = <<>>
    /\ reports0 = <<>>
    /\ i = 0
    /\ total_score = 0
    /\ valid_reports_count = 0
    /\ avg_fit_score = 0
    /\ reports_str_list = <<>>
    /\ user_message = [count |-> 0, reports_str |-> <<>>, use_fit_score |-> 0]
    /\ calls = 0
    /\ response = [kind |-> "none", obj |-> <<>>]
    /\ result = <<>>
    /\ hpc = "idle"
    /\ tech_score = 0
    /\ exp_score = 0
    /\ complexity_score = 0
    /\ domain_score = 0
    /\ llm_adjustment = 0
    /\ base_score = FZero
    /\ final_score = FZero
    /\ variance = FZero
    /\ confidence = ""
    /\ conf_percent = 0
    /\ hresult = NoScoreResult
    /\ tpc = "idle"
    /\ candidate_text = <<>>
    /\ jd_text = <<>>
    /\ jd_skills = {}
    /\ candidate_skills = {}
    /\ tresult = [score |-> 0, matched |-> {}, missing |-> {}]
    /\ xpc = "idle"
    /\ resume_text = <<>>
    /\ exp_jd_text = <<>>
    /\ candidate_years = 0
    /\ required_years = 0
    /\ xresult = 0
    /\ cpc = "idle"
    /\ repos = <<>>
    /\ ci = 0
    /\ ctotal_score = 0
    /\ valid_repos = 0
    /\ cresult = 0
    /\ ppc = "idle"
    /\ llm_configured = FALSE
    /\ req_no = 0
    /\ req = NoRequest
    /\ gh = NoGitHub
    /\ events = <<>>
    /\ scores = <<>>
    /\ ai_result = NoAnswer
    /\ passed_adjustment = NoAdjustment
    /\ scoring_result = NoScoreResult
    /\ http_status = 0
    /\ unhandled = ""
    /\ judge_calls = 0
    /\ candidates = <<>>
    /\ report_files = <<>>
    /\ prev = NoPrevious
    /\ dpc = "idle"
    /\ dom_jd_text = <<>>
    /\ dom_candidate_text = <<>>
    /\ top_jd_keywords = {}
    /\ dmatches = 0
    /\ dresult = 0

\* one call of generate_audit_trail with the same arguments, the first or
\* the second
GenerateAuditTrail ==
    /\ apc \in {"entry", "once"}
    /\ audit_trail' = AuditTrail(audit_scores, audit_evidence)
    /\ audit_before' = audit_trail
    /\ apc' = IF apc = "entry" THEN "once" ELSE "twice"
    /\ UNCHANGED <<audit_scores, audit_evidence, audit_scores0, audit_evidence0>>
    /\ UNCHANGED <<aggVars, scoreVars, techVars, expVars,
                 cxVars, pipeVars, domainVars>>

NextAudit == GenerateAuditTrail

SpecAudit == InitAudit /\ [][NextAudit]_vars

-----------------------------------------------------------------------------
(* Claims about generate_audit_trail *)

\* C24: generate_audit_trail maps each of the four scores to the entry
\* "<value>/100 (Weight: <pct>%)" with the weights 40, 25, 20 and 15, embeds
\* the evidence argument as it is (same elements, order and repetitions),
\* leaves its arguments as they were, and gives the same output when called
\* again with the same arguments.
C24_AuditTrailIsPresentational ==
    apc # "entry"
        => /\ audit_trail.math_breakdown.technical_skills
                 = ToString(audit_scores0.tech) \o "/100 (Weight: 40%)"
           /\ audit_trail.math_breakdown.experience_level
                 = ToString(audit_scores0.exp) \o "/100 (Weight: 25%)"
           /\ audit_trail.math_breakdown.project_complexity
                 = ToString(audit_scores0.comp) \o "/100 (Weight: 20%)"
           /\ audit_trail.math_breakdown.domain_relevance
                 = ToString(audit_scores0.dom) \o "/100 (Weight: 15%)"
           /\ DOMAIN audit_trail = {"math_breakdown", "evidence_log"}
           /\ audit_trail.evidence_log = audit_evidence0
           /\ audit_scores = audit_scores0
           /\ audit_evidence = audit_evidence0
           /\ apc = "twice" => audit_before = audit_trail

\* the same finding listed twice is embedded twice, and a score of 7 reads
\* "7/100 (Weight: 40%)", on the second call as on the first
C24_Witness ==
    /\ apc = "twice"
    /\ audit_evidence0.strong_evidence = <<"No tests", "No tests">>
    /\ audit_trail.evidence_log.strong_evidence = <<"No tests", "No tests">>
    /\ audit_scores0.tech = 7
    /\ audit_trail.math_breakdown.technical_skills = "7/100 (Weight: 40%)"

-----------------------------------------------------------------------------
(* Claims about the stored rows of analyze_candidate *)

\* C29: there is at most one Candidate row per (project_id,
\* github_username); a request for a candidate that has a row overwrites
\* the scores and the evidence of that row in place and keeps its id and
\* unique_id, and only a request for a candidate without a row creates one.
C29_OneRowPerCandidate ==
    [][LET same(r, project_id, username) ==
               r.project_id = project_id /\ r.github_username = username
           username == CleanUsername(req.username)
           held == {k \in 1..Len(candidates) :
                       same(candidates[k], req.project_id, username)}
           evidence == Get(ai_result.obj, "breakdown", EmptyDict)
       IN  /\ \A j, k \in 1..Len(candidates') :
                 same(candidates'[j], candidates'[k].project_id,
                      candidates'[k].github_username) => j = k
           /\ Len(candidates') >= Len(candidates)
           /\ \A k \in 1..Len(candidates) :
                 /\ candidates'[k].id = candidates[k].id
                 /\ candidates'[k].unique_id = candidates[k].unique_id
                 /\ same(candidates'[k], candidates[k].project_id,
                         candidates[k].github_username)
                 /\ k \notin held => candidates'[k] = candidates[k]
           /\ Len(candidates') > Len(candidates)
                 => /\ ppc = "save" /\ held = {}
                    /\ Len(candidates') = Len(candidates) + 1
                    /\ same(candidates'[Len(candidates')], req.project_id,
                            username)
           /\ ppc = "save" /\ held # {}
                 => /\ Len(candidates') = Len(candidates)
                    /\ http_status' = 200
                    /\ \A k \in held :
                          /\ candidates'[k].technical_skills_score = scores.tech
                          /\ candidates'[k].experience_level_score = scores.exp
                          /\ candidates'[k].project_complexity_score = scores.comp
                          /\ candidates'[k].domain_relevance_score = scores.dom
                          /\ candidates'[k].base_score = scoring_result.base_score
                          /\ candidates'[k].final_score = scoring_result.final_score
                          /\ candidates'[k].llm_adjustment = passed_adjustment.val
                          /\ candidates'[k].strong_evidence
                                = Get(evidence, "strong_evidence", <<>>)
                          /\ candidates'[k].red_flags
                                = Get(evidence, "red_flags", <<>>)]_vars

\* the second request analysed the candidate of the first again: the one
\* row has its id and unique_id, and other scores and evidence than before
C29_Witness ==
    /\ ppc = "done"
    /\ req_no = 2
    /\ http_status = 200
    /\ Len(prev.candidates) = 1
    /\ Len(candidates) = 1
    /\ candidates[1].id = prev.candidates[1].id
    /\ candidates[1].unique_id = prev.candidates[1].unique_id
    /\ candidates[1].final_score # prev.candidates[1].final_score
    /\ candidates[1].strong_evidence # prev.candidates[1].strong_evidence
    /\ candidates[1].project_complexity_score
          # prev.candidates[1].project_complexity_score

=============================================================================
